---- MODULE Spec2Model ----
(***************************************************************************)
(* Model of the injected script of src/server/injected/injectedScript.ts:  *)
(* the poll/progress runtime (poll, _runAbortableTask) and the query       *)
(* evaluator (querySelector, querySelectorAll, _querySelectorRecursively). *)
(***************************************************************************)
EXTENDS Integers, Sequences, FiniteSets, TLC

(* ------------------------------ bounds -------------------------------- *)
\* Most predicate invocations of one poll.
MaxTicks == 3
\* Most log entries appended to one progress object.
MaxLog == 3
\* Most takeNextLogs calls on one poll.
MaxTakes == 2
\* Most parts of a parsed selector.
MaxParts == 3
\* Most states a readiness wait is asked for.
MaxStates == 2
\* Most predicate invocations of one readiness wait.
MaxWaitTicks == 4
\* Most predicate invocations of the wait of the stability scenario.
MaxScenarioTicks == 6
\* Most items of an array handed to deepEquals or to expect.
MaxItems == 2
\* Most characters of a text handed to ExpectedTextMatcher.matches.
MaxText == 4
\* Most options of a select element, and most options asked to be selected.
MaxOptions == 2
\* Most predicate invocations of a poll whose timers are recorded.
MaxTimerTicks == 6
\* Most query calls made on one evaluator.
MaxQueries == 3
\* Most milliseconds the client's clock advances during one _withElement.
MaxClock == 4

(* ----------------------------- constants ------------------------------ *)
\* Frames shorter than this many ms are dropped by the stability check.
FrameThreshold == 15

(* --------------------------- value domains ---------------------------- *)
\* The JavaScript value undefined.
Undefined == "undefined"
\* Messages handed to log and logRepeating; the empty string is a string too.
Messages == {"", "a"}
\* Values handed to setIntermediateResult (primitives compared with ===).
IntermediateResults == {Undefined, "v1"}
\* Values a predicate returns other than the tick's sentinel.
PredicateValues == {"done", "error:notconnected"}
\* Messages of the errors a predicate throws.
ErrorMessages == {"boom"}

VARIABLES
  \* _runAbortableTask
  unsentLog, takeNextLogsCallback, taskFinished, lastMessage,
  lastIntermediateResult, aborted,
  \* poll: the result promise, the scheduler, and the position of the tick
  started, resultState, resultValue, scheduled, pc,
  \* the promises takeNextLogs returned, in the order of the calls
  takePromises,
  \* history: every entry ever appended, predicate and scheduleNext call counts
  emitted, predicateCalls, scheduleCalls,
  \* history: the last call of log, logRepeating or setIntermediateResult
  lastCall,
  \* the document and the last querySelector/querySelectorAll call
  doc, query,
  \* the readiness wait whose predicate the poll runs
  wait,
  \* the last call of a function that reads no state of the injected script
  call

pollVars == <<unsentLog, takeNextLogsCallback, taskFinished, lastMessage,
              lastIntermediateResult, aborted, started, resultState,
              resultValue, scheduled, pc, takePromises, emitted,
              predicateCalls, scheduleCalls, lastCall>>
queryVars == <<doc, query>>
vars == <<pollVars, queryVars, wait, call>>

(* ====================================================================== *)
(*                      Poll / progress runtime                           *)
(* ====================================================================== *)

MessageEntry(message) == [kind |-> "message", value |-> message]
IntermediateResultEntry(v) == [kind |-> "intermediateResult", value |-> v]

\* logReady: hand the buffer to the registered callback, if any, and clear both.
LogReadyNoFlush(cb, log, proms) ==
  [cb |-> cb, log |-> log, proms |-> proms]
logReadyKeepsBuffer(cb, log, proms) ==
  IF cb = 0
    THEN [cb |-> 0, log |-> log, proms |-> proms]
    ELSE [cb |-> 0, log |-> log,
          proms |-> [proms EXCEPT ![cb].state = "resolved", ![cb].logs = log]]
logReady(cb, log, proms) ==
  IF cb = 0
    THEN [cb |-> 0, log |-> log, proms |-> proms]
    ELSE [cb |-> 0, log |-> <<>>,
          proms |-> [proms EXCEPT ![cb].state = "resolved", ![cb].logs = log]]

NoCall == [op |-> "none", arg |-> "", appended |-> 0]
ProgressCall(op, arg) ==
  [op |-> op, arg |-> arg, appended |-> Len(emitted') - Len(emitted)]

\* The state after construction of the poll (before run()).
PollInit ==
  /\ unsentLog = <<>>
  /\ takeNextLogsCallback = 0
  /\ taskFinished = FALSE
  /\ lastMessage = ""
  /\ lastIntermediateResult = Undefined
  /\ aborted = FALSE
  /\ started = FALSE
  /\ resultState = "pending"
  /\ resultValue = Undefined
  /\ scheduled = FALSE
  /\ pc = "idle"
  /\ takePromises = <<>>
  /\ emitted = <<>>
  /\ predicateCalls = 0
  /\ scheduleCalls = 0
  /\ lastCall = NoCall

\* The effect of appending one entry: push, then logReady.
AppendEntry(entry) ==
  LET r == logReady(takeNextLogsCallback, Append(unsentLog, entry), takePromises)
  IN /\ unsentLog' = r.log
     /\ takeNextLogsCallback' = r.cb
     /\ takePromises' = r.proms
     /\ emitted' = Append(emitted, entry)

NoAppend ==
  UNCHANGED <<unsentLog, takeNextLogsCallback, takePromises, emitted>>

\* The result promise has settled and the callback of result.finally, a
\* microtask, has not run yet: it runs before any other task does.
FinallyPending == started /\ resultState # "pending" /\ ~taskFinished

\* next(): the guard on progress.aborted, then the predicate is entered.
NextIgnoresAborted == FALSE
NextSkipsWhenAborted == aborted

EnterNext ==
  IF NextSkipsWhenAborted
    THEN UNCHANGED <<pc, predicateCalls>>
    ELSE /\ pc' = "predicate"
         /\ predicateCalls' = predicateCalls + 1

\* run(): task(progress) calls next() synchronously; result.finally is registered.
Run ==
  /\ pc = "idle"
  /\ ~started
  /\ started' = TRUE
  /\ EnterNext
  /\ UNCHANGED <<unsentLog, takeNextLogsCallback, taskFinished, lastMessage,
                 lastIntermediateResult, aborted, resultState, resultValue,
                 scheduled, takePromises, emitted, scheduleCalls>>
  /\ UNCHANGED lastCall
  /\ UNCHANGED <<queryVars, wait, call>>

\* The scheduler (requestAnimationFrame or setTimeout) calls next.
TickWithin(maxTicks) ==
  /\ pc = "idle"
  /\ ~FinallyPending
  /\ scheduled
  /\ predicateCalls < maxTicks
  /\ scheduled' = FALSE
  /\ EnterNext
  /\ UNCHANGED <<unsentLog, takeNextLogsCallback, taskFinished, lastMessage,
                 lastIntermediateResult, aborted, started, resultState,
                 resultValue, takePromises, emitted, scheduleCalls>>
  /\ UNCHANGED lastCall

Tick == TickWithin(MaxTicks) /\ UNCHANGED <<queryVars, wait, call>>

\* progress.log(message), called by the predicate.
Log(message) ==
  /\ pc = "predicate"
  /\ Len(emitted) < MaxLog
  /\ lastMessage' = message
  /\ AppendEntry(MessageEntry(message))
  /\ UNCHANGED <<taskFinished, lastIntermediateResult, aborted, started,
                 resultState, resultValue, scheduled, pc, predicateCalls,
                 scheduleCalls>>
  /\ lastCall' = ProgressCall("log", message)
  /\ UNCHANGED <<queryVars, wait, call>>

\* progress.logRepeating(message), called by the predicate.
LogRepeatingSuppressesNever(message) == FALSE
LogRepeatingSuppresses(message) == message = lastMessage

LogRepeating(message) ==
  /\ pc = "predicate"
  /\ Len(emitted) < MaxLog
  /\ IF LogRepeatingSuppresses(message)
       THEN /\ NoAppend
            /\ UNCHANGED lastMessage
       ELSE /\ lastMessage' = message
            /\ AppendEntry(MessageEntry(message))
  /\ UNCHANGED <<taskFinished, lastIntermediateResult, aborted, started,
                 resultState, resultValue, scheduled, pc, predicateCalls,
                 scheduleCalls>>
  /\ lastCall' = ProgressCall("logRepeating", message)
  /\ UNCHANGED <<queryVars, wait, call>>

\* progress.setIntermediateResult(intermediateResult), called by the predicate.
SetIntermediateResult(intermediateResult) ==
  /\ pc = "predicate"
  /\ Len(emitted) < MaxLog
  /\ IF lastIntermediateResult = intermediateResult
       THEN /\ NoAppend
            /\ UNCHANGED lastIntermediateResult
       ELSE /\ lastIntermediateResult' = intermediateResult
            /\ AppendEntry(IntermediateResultEntry(intermediateResult))
  /\ UNCHANGED <<taskFinished, lastMessage, aborted, started, resultState,
                 resultValue, scheduled, pc, predicateCalls, scheduleCalls>>
  /\ lastCall' = ProgressCall("setIntermediateResult", intermediateResult)
  /\ UNCHANGED <<queryVars, wait, call>>

\* const continuePolling = Symbol('continuePolling'): the sentinel of a tick
\* is a value of its own, told from the others by the number of the tick.
Sentinel(tick) == "Symbol(continuePolling)#" \o ToString(tick)
\* The sentinels minted so far; the predicate may have kept the earlier ones.
MintedSentinels == {Sentinel(tick) : tick \in 1..predicateCalls}

\* success === continuePolling, for the sentinel of the tick
ContinuesNever(success, tick) == FALSE
Continues(success, tick) == success = Sentinel(tick)

\* The predicate returns a value other than the sentinel: fulfill(success).
PredicateReturns(success) ==
  /\ pc = "predicate"
  /\ ~Continues(success, predicateCalls)
  /\ pc' = "idle"
  /\ resultState' = "fulfilled"
  /\ resultValue' = success
  /\ UNCHANGED <<unsentLog, takeNextLogsCallback, taskFinished, lastMessage,
                 lastIntermediateResult, aborted, started, scheduled,
                 takePromises, emitted, predicateCalls, scheduleCalls>>
  /\ UNCHANGED lastCall
  /\ UNCHANGED <<queryVars, wait, call>>

\* The predicate returns the tick's sentinel: scheduleNext(next).
ScheduleNext ==
  /\ pc = "predicate"
  /\ Continues(Sentinel(predicateCalls), predicateCalls)
  /\ pc' = "idle"
  /\ scheduled' = TRUE
  /\ scheduleCalls' = scheduleCalls + 1
  /\ UNCHANGED <<unsentLog, takeNextLogsCallback, taskFinished, lastMessage,
                 lastIntermediateResult, aborted, started, resultState,
                 resultValue, takePromises, emitted, predicateCalls>>
  /\ UNCHANGED lastCall
  /\ UNCHANGED <<queryVars, wait>>

PredicateContinues == ScheduleNext /\ UNCHANGED call

\* '  ' + e.message
ThrowMessageBare(message) == message
ThrowMessage(message) == "  " \o message

\* The predicate throws e: progress.log('  ' + e.message); reject(e).
PredicateThrows(message) ==
  /\ pc = "predicate"
  /\ pc' = "idle"
  /\ lastMessage' = ThrowMessage(message)
  /\ AppendEntry(MessageEntry(ThrowMessage(message)))
  /\ resultState' = "rejected"
  /\ resultValue' = message
  /\ UNCHANGED <<taskFinished, lastIntermediateResult, aborted, started,
                 scheduled, predicateCalls, scheduleCalls>>
  /\ lastCall' = ProgressCall("log", ThrowMessage(message))
  /\ UNCHANGED <<queryVars, wait, call>>

\* The callback of result.finally: taskFinished = true; logReady().
FinallyDoesNotFlush(cb, log, proms) == LogReadyNoFlush(cb, log, proms)
FinallyFlushes(cb, log, proms) == logReady(cb, log, proms)

Finally ==
  /\ pc = "idle"
  /\ FinallyPending
  /\ taskFinished' = TRUE
  /\ LET r == FinallyFlushes(takeNextLogsCallback, unsentLog, takePromises)
     IN /\ unsentLog' = r.log
        /\ takeNextLogsCallback' = r.cb
        /\ takePromises' = r.proms
  /\ UNCHANGED <<lastMessage, lastIntermediateResult, aborted, started,
                 resultState, resultValue, scheduled, pc, emitted,
                 predicateCalls, scheduleCalls>>
  /\ UNCHANGED lastCall
  /\ UNCHANGED <<queryVars, wait, call>>

\* takeNextLogs(): a new promise whose fulfill replaces the registered callback.
\* The promise records, as history, whether the task had finished and what
\* the buffer held when the call was made.
TakePromise ==
  [state |-> "pending", logs |-> <<>>,
   finished |-> taskFinished, buffered |-> unsentLog]

\* if (unsentLog.length || taskFinished) logReady();
TakeNextLogsReadyOnlyOnLogs == Len(unsentLog) > 0
TakeNextLogsReady == Len(unsentLog) > 0 \/ taskFinished

TakeNextLogs ==
  /\ pc = "idle"
  /\ ~FinallyPending
  /\ Len(takePromises) < MaxTakes
  /\ LET id == Len(takePromises) + 1
         proms == Append(takePromises, TakePromise)
         r == IF TakeNextLogsReady
                THEN logReady(id, unsentLog, proms)
                ELSE [cb |-> id, log |-> unsentLog, proms |-> proms]
     IN /\ unsentLog' = r.log
        /\ takeNextLogsCallback' = r.cb
        /\ takePromises' = r.proms
  /\ UNCHANGED <<taskFinished, lastMessage, lastIntermediateResult, aborted,
                 started, resultState, resultValue, scheduled, pc, emitted,
                 predicateCalls, scheduleCalls>>
  /\ UNCHANGED lastCall
  /\ UNCHANGED <<queryVars, wait, call>>

\* cancel(): progress.aborted = true.
Cancel ==
  /\ pc = "idle"
  /\ ~FinallyPending
  /\ ~aborted
  /\ aborted' = TRUE
  /\ UNCHANGED <<unsentLog, takeNextLogsCallback, taskFinished, lastMessage,
                 lastIntermediateResult, started, resultState, resultValue,
                 scheduled, pc, takePromises, emitted, predicateCalls,
                 scheduleCalls>>
  /\ UNCHANGED lastCall
  /\ UNCHANGED <<queryVars, wait, call>>

(* ====================================================================== *)
(*                 Element states and the readiness loop                  *)
(* ====================================================================== *)

\* The JavaScript value null (an attribute that is not set).
Null == "null"
\* A boolean as a JavaScript value; every other value is a string here.
Bool(b) == IF b THEN "true" ELSE "false"
\* typeof v === 'boolean'
IsBoolean(v) == v \in {"true", "false"}

\* Client rects: RectA and one rect differing from it in each component.
RectA == [top |-> 0, left |-> 0, width |-> 10, height |-> 10]
RectB == [RectA EXCEPT !.width = 12]
Rects == {RectA, RectB, [RectA EXCEPT !.top = 1], [RectA EXCEPT !.left = 1],
          [RectA EXCEPT !.height = 12]}

NodeNames == {"BUTTON", "INPUT", "SELECT", "TEXTAREA", "DIV"}
Roles == {Null, "checkbox", "radio"}
InputTypes == {"checkbox", "radio", "text"}

\* The elements a node can retarget to: what elementState reads of them.
\* Only an INPUT has a type and a checked flag.
DomElements ==
  {e \in [isConnected : BOOLEAN, visible : BOOLEAN, nodeName : NodeNames,
          disabled : BOOLEAN, readonly : BOOLEAN, role : Roles,
          ariaChecked : {Null, "true"}, type : InputTypes \cup {Undefined},
          checked : BOOLEAN, clientRect : {RectA}] :
     /\ (e.nodeName = "INPUT") = (e.type # Undefined)
     /\ e.nodeName # "INPUT" => ~e.checked
     /\ ~e.isConnected => ~e.visible}

\* The label of a control: connected exactly when its control is.
LabelOf(control, visible) ==
  [control EXCEPT !.nodeName = "LABEL", !.visible = visible /\ control.isConnected,
                  !.disabled = FALSE, !.readonly = FALSE, !.role = Null,
                  !.ariaChecked = Null, !.type = Undefined, !.checked = FALSE]

\* A node is given by what retarget finds for it under the two behaviours:
\* a set holding the element, or the empty set for null.
MissingNode == [noFollowLabel |-> {}, followLabel |-> {}]
PlainNode(element) == [noFollowLabel |-> {element}, followLabel |-> {element}]
LabelNode(control, visible) ==
  [noFollowLabel |-> {LabelOf(control, visible)}, followLabel |-> {control}]

Nodes ==
  {MissingNode}
    \cup {PlainNode(e) : e \in DomElements}
    \cup {LabelNode(e, v) : e \in {c \in DomElements : c.nodeName = "INPUT"},
                            v \in BOOLEAN}

retarget(node, behavior) ==
  IF behavior = "follow-label" THEN node.followLabel ELSE node.noFollowLabel

The(found) == CHOOSE element \in found : TRUE

Return(value) == [kind |-> "return", value |-> value]
Throw(message) == [kind |-> "throw", value |-> message]

\* if (!element || !element.isConnected)
DetachedOnlyWhenMissing(found) == found = {}
Detached(found) == found = {} \/ ~The(found).isConnected

\* const editable = !([...].includes(element.nodeName) && element.hasAttribute('readonly'))
AlwaysEditable(element) == TRUE
IsEditable(element) ==
  ~(element.nodeName \in {"INPUT", "TEXTAREA", "SELECT"} /\ element.readonly)

elementState(node, state) ==
  LET found == retarget(node, IF state \in {"stable", "visible", "hidden"}
                                THEN "no-follow-label" ELSE "follow-label")
  IN IF Detached(found)
       THEN IF state = "hidden" THEN Return(Bool(TRUE))
            ELSE Return("error:notconnected")
       ELSE
         LET element == The(found)
             disabled == /\ element.nodeName \in {"BUTTON", "INPUT", "SELECT", "TEXTAREA"}
                         /\ element.disabled
             editable == IsEditable(element)
         IN CASE state = "visible" -> Return(Bool(element.visible))
              [] state = "hidden" -> Return(Bool(~element.visible))
              [] state = "disabled" -> Return(Bool(disabled))
              [] state = "enabled" -> Return(Bool(~disabled))
              [] state = "editable" -> Return(Bool(~disabled /\ editable))
              [] state = "checked" ->
                   IF (IF element.role = Null THEN "" ELSE element.role)
                        \in {"checkbox", "radio"}
                     THEN Return(Bool(element.ariaChecked = "true"))
                   ELSE IF element.nodeName # "INPUT"
                     THEN Throw("Not a checkbox or radio button")
                   ELSE IF element.type \notin {"radio", "checkbox"}
                     THEN Throw("Not a checkbox or radio button")
                   ELSE Return(Bool(element.checked))
              [] OTHER -> Throw("Unexpected element state \"" \o state \o "\"")

ElementStates == {"visible", "hidden", "enabled", "disabled", "editable", "checked"}

(* --------------- waitForElementStatesAndPerformAction ----------------- *)

\* The states a readiness wait is asked for, and the lists of distinct ones.
WaitStateNames == {"visible", "checked", "stable"}
StateLists ==
  {states \in UNION {[1..n -> WaitStateNames] : n \in 0..MaxStates} :
     \A i, j \in 1..Len(states) : states[i] = states[j] => i = j}
\* The element the waits are made on: a text input, so that 'checked' throws.
WaitElement ==
  [isConnected |-> TRUE, visible |-> TRUE, nodeName |-> "INPUT",
   disabled |-> FALSE, readonly |-> FALSE, role |-> Null, ariaChecked |-> Null,
   type |-> "text", checked |-> FALSE, clientRect |-> RectA]
\* What the page can make of it between two ticks.
WaitNodes ==
  {MissingNode}
    \cup {PlainNode([WaitElement EXCEPT !.isConnected = c, !.visible = c /\ v,
                                        !.clientRect = r]) :
            c \in BOOLEAN, v \in BOOLEAN, r \in Rects}
\* The time between two ticks, in ms: a short frame and a full one.
FrameDeltas == {5, 16}
\* What the callback returns: a value, or the tick's sentinel.
Continue == "continuePolling"
CallbackResults == {"done", Continue}

NoLog == [op |-> "none", message |-> ""]

\* { x: clientRect.top, y: clientRect.left, width, height }
RectOf(clientRect) ==
  [x |-> clientRect.top, y |-> clientRect.left,
   width |-> clientRect.width, height |-> clientRect.height]

samePosition(lastRect, rect) ==
  /\ lastRect # {}
  /\ rect.x = The(lastRect).x /\ rect.y = The(lastRect).y
  /\ rect.width = The(lastRect).width /\ rect.height = The(lastRect).height

\* if (samePosition) ++samePositionCounter; else samePositionCounter = 0;
CountWithoutReset(same, samePositionCounter) == samePositionCounter + 1
CountSamePosition(same, samePositionCounter) ==
  IF same THEN samePositionCounter + 1 ELSE 0

\* if (++counter === 1) return continuePolling;
IsTheSynchronousCall(counter) == counter = 1

\* const isStable = samePositionCounter >= this._stableRafCount;
StableAfterOneRepeat(samePositionCounter, stableRafCount) == samePositionCounter >= 1
StableAfterEnoughRepeats(samePositionCounter, stableRafCount) ==
  samePositionCounter >= stableRafCount

\* The closure variables of one wait.
WaitClosure ==
  [lastRect |-> {}, counter |-> 0, samePositionCounter |-> 0, lastTime |-> 0]

\* The end of a 'stable' entry that measured: the closure variables are
\* updated, and the entry passes or logs and polls on.
StableMeasured(counted, rect, time, count, isStable, isStableForLogs) ==
  [kind |-> IF isStable THEN "next" ELSE "continue",
   value |-> IF isStable THEN "" ELSE Continue,
   w |-> [counted EXCEPT !.lastTime = time, !.lastRect = {rect},
                         !.samePositionCounter = count],
   log |-> IF isStable \/ isStableForLogs THEN NoLog
           ELSE [op |-> "logRepeating",
                 message |-> "    element is not stable - waiting..."],
   eval |-> IF isStable THEN "stable" ELSE "unstable",
   measured |-> <<[rect |-> rect, time |-> time]>>]

\* const isStable = ...; const isStableForLogs = isStable || !lastRect;
StableCounted(w, counted, rect, time, stableRafCount, count) ==
  StableMeasured(counted, rect, time, count,
                 StableAfterEnoughRepeats(count, stableRafCount),
                 StableAfterEnoughRepeats(count, stableRafCount) \/ w.lastRect = {})

\* The measurement of a 'stable' entry that was not skipped or dropped.
StableMeasure(w, counted, rect, time, stableRafCount) ==
  StableCounted(w, counted, rect, time, stableRafCount,
                CountSamePosition(samePosition(w.lastRect, rect),
                                  w.samePositionCounter))

\* if (this._stableRafCount > 1 && time - lastTime < 15)
NeverShortFrame(w, time, stableRafCount) == FALSE
IsShortFrame(w, time, stableRafCount) ==
  stableRafCount > 1 /\ time - w.lastTime < FrameThreshold

\* A 'stable' entry on the element the node retargets to.
StableFound(w, found, counted, time, stableRafCount) ==
  IF found = {}
    THEN [kind |-> "return", value |-> "error:notconnected", w |-> w,
          log |-> NoLog, eval |-> "error:notconnected", measured |-> <<>>]
  ELSE IF IsTheSynchronousCall(counted.counter)
    THEN [kind |-> "continue", value |-> Continue, w |-> counted,
          log |-> NoLog, eval |-> "skipped", measured |-> <<>>]
  ELSE IF IsShortFrame(w, time, stableRafCount)
    THEN [kind |-> "continue", value |-> Continue, w |-> counted,
          log |-> NoLog, eval |-> "dropped", measured |-> <<>>]
  ELSE StableMeasure(w, counted, RectOf(The(found).clientRect), time,
                     stableRafCount)

\* One 'stable' entry of the loop over the states: the closure after it, what
\* the predicate does next, and what was measured.
StableEntry(w, node, time, stableRafCount) ==
  StableFound(w, retarget(node, "no-follow-label"),
              [w EXCEPT !.counter = @ + 1], time, stableRafCount)

\* if (!result) { progress.logRepeating(...); return continuePolling; }
StateNeverFails(value) == FALSE
StateFails(value) == value = Bool(FALSE)

\* What the loop does with the result of elementState.
StateResult(w, state, result) ==
  IF result.kind = "throw"
    THEN [kind |-> "throw", value |-> result.value, w |-> w, log |-> NoLog,
          eval |-> "throw", measured |-> <<>>]
  ELSE IF ~IsBoolean(result.value)
    THEN [kind |-> "return", value |-> result.value, w |-> w, log |-> NoLog,
          eval |-> result.value, measured |-> <<>>]
  ELSE IF StateFails(result.value)
    THEN [kind |-> "continue", value |-> Continue, w |-> w,
          log |-> [op |-> "logRepeating",
                   message |-> "    element is not " \o state \o " - waiting..."],
          eval |-> result.value, measured |-> <<>>]
  ELSE [kind |-> "next", value |-> "", w |-> w, log |-> NoLog,
        eval |-> result.value, measured |-> <<>>]

\* One entry other than 'stable'.
StateEntry(w, node, state) == StateResult(w, state, elementState(node, state))

\* What one entry's evaluation adds to the record of the tick.
Seen(evals, measured, state, entry) ==
  Append(evals, [state |-> state, eval |-> entry.eval,
                 measurements |-> Len(measured) + Len(entry.measured)])

\* The predicate handed to the poll: the loop over the states from entry i on,
\* then the callback; evals and measured collect what the entries did.
RECURSIVE StatesLoop(_, _, _, _, _, _, _, _, _)
\* After entry i: on to the next entry, or out of the predicate.
AfterEntry(states, i, node, time, stableRafCount, callback, evals, measured, entry) ==
  IF entry.kind = "next"
    THEN StatesLoop(states, i + 1, entry.w, node, time, stableRafCount,
                    callback, Seen(evals, measured, states[i], entry),
                    measured \o entry.measured)
    ELSE [kind |-> entry.kind, value |-> entry.value, w |-> entry.w,
          log |-> entry.log, evals |-> Seen(evals, measured, states[i], entry),
          measured |-> measured \o entry.measured, invoked |-> FALSE,
          returned |-> ""]

StatesLoop(states, i, w, node, time, stableRafCount, callback, evals, measured) ==
  IF i > Len(states)
    THEN [kind |-> IF callback = Continue THEN "continue" ELSE "return",
          value |-> callback, w |-> w, log |-> NoLog, evals |-> evals,
          measured |-> measured, invoked |-> TRUE, returned |-> callback]
    ELSE AfterEntry(states, i, node, time, stableRafCount, callback, evals,
                    measured,
                    IF states[i] # "stable" THEN StateEntry(w, node, states[i])
                    ELSE StableEntry(w, node, time, stableRafCount))

predicate(states, force, w, node, time, stableRafCount, callback) ==
  IF force
    THEN [kind |-> IF callback = Continue THEN "continue" ELSE "return",
          value |-> callback, w |-> w,
          log |-> [op |-> "log", message |-> "    forcing action"],
          evals |-> <<>>, measured |-> <<>>, invoked |-> TRUE,
          returned |-> callback]
    ELSE StatesLoop(states, 1, w, node, time, stableRafCount, callback,
                    <<>>, <<>>)

\* The wait before run(): its arguments, the closure variables, the clock,
\* and as history every measurement, the measurements at which a 'stable'
\* entry passed, the ticks that invoked the callback, and of the last tick
\* what each entry evaluated to, whether the callback was invoked and what it
\* returned, and what the predicate did.
NoTick ==
  [evals |-> <<>>, invoked |-> FALSE, returned |-> "", kind |-> "none",
   value |-> ""]
Wait(states, force, stableRafCount) ==
  [states |-> states, force |-> force, stableRafCount |-> stableRafCount,
   w |-> WaitClosure, now |-> 0, measured |-> <<>>, passes |-> {},
   invokedAt |-> {}, lastTick |-> NoTick]
\* No wait is under way.
WaitIdle == Wait(<<>>, FALSE, 1)
\* No call has been made.
NoPureCall == [fn |-> "none"]

\* The log call of a predicate invocation, if it made one.
ApplyLog(log) ==
  IF log.op = "none" \/ (log.op = "logRepeating" /\ LogRepeatingSuppresses(log.message))
    THEN /\ NoAppend
         /\ UNCHANGED lastMessage
    ELSE /\ lastMessage' = log.message
         /\ AppendEntry(MessageEntry(log.message))

\* The measurements at which a 'stable' entry of this tick passed.
Passed(measuredBefore, evals) ==
  {measuredBefore + evals[i].measurements :
     i \in {j \in 1..Len(evals) : evals[j].eval = "stable"}}

\* What next() does with the outcome p of the predicate at this tick: the
\* poll fulfils, schedules the next tick or rejects.
Outcome(p, time) ==
  /\ predicateCalls' = predicateCalls + 1
  /\ wait' = [wait EXCEPT
                !.w = p.w, !.now = time,
                !.measured = @ \o p.measured,
                !.passes = @ \cup Passed(Len(wait.measured), p.evals),
                !.invokedAt = IF p.invoked THEN @ \cup {predicateCalls + 1}
                              ELSE @,
                !.lastTick = [evals |-> p.evals, invoked |-> p.invoked,
                              returned |-> p.returned,
                              kind |-> p.kind, value |-> p.value]]
  /\ scheduled' = (p.kind = "continue")
  /\ scheduleCalls' = IF p.kind = "continue" THEN scheduleCalls + 1
                      ELSE scheduleCalls
  /\ IF p.kind = "throw"
       THEN ApplyLog([op |-> "log", message |-> "  " \o p.value])
       ELSE ApplyLog(p.log)
  /\ resultState' = CASE p.kind = "return" -> "fulfilled"
                      [] p.kind = "throw" -> "rejected"
                      [] OTHER -> resultState
  /\ resultValue' = IF p.kind = "continue" THEN resultValue ELSE p.value

\* next() of the poll the wait returns: the predicate runs on what the page
\* shows at this tick.
WaitNext(node, time, callback) ==
  IF NextSkipsWhenAborted
    THEN /\ scheduled' = FALSE
         /\ NoAppend
         /\ UNCHANGED <<lastMessage, resultState, resultValue, scheduleCalls,
                        predicateCalls, wait>>
    ELSE Outcome(predicate(wait.states, wait.force, wait.w, node, time,
                           wait.stableRafCount, callback), time)

\* run() of the wait's poll: the first predicate invocation is synchronous.
WaitRun(node, callback) ==
  /\ pc = "idle"
  /\ ~started
  /\ started' = TRUE
  /\ WaitNext(node, wait.now, callback)
  /\ UNCHANGED <<taskFinished, lastIntermediateResult, aborted, pc, lastCall>>
  /\ UNCHANGED <<queryVars, call>>

\* requestAnimationFrame (or the 16 ms timer) calls next, dt ms later.
WaitTick(node, dt, callback, maxTicks) ==
  /\ pc = "idle"
  /\ ~FinallyPending
  /\ scheduled
  /\ predicateCalls < maxTicks
  /\ WaitNext(node, wait.now + dt, callback)
  /\ UNCHANGED <<started, taskFinished, lastIntermediateResult, aborted, pc,
                 lastCall>>
  /\ UNCHANGED <<queryVars, call>>

(* ====================================================================== *)
(*                            selectOptions                               *)
(* ====================================================================== *)

(* An option of a select has a value, a label and its selected flag; its    *)
(* identity is its position among the options. What is asked to be         *)
(* selected is a Node (node holds the position of the option it is, or 0   *)
(* for a node that is no option of the select) or a descriptor with any of *)
(* value, label and index (the empty set is undefined).                    *)
Option(value, label) == [value |-> value, label |-> label, selected |-> FALSE]
NodeToSelect(position) == [node |-> {position}, value |-> {}, label |-> {}, index |-> {}]
Descriptor(value, label, index) ==
  [node |-> {}, value |-> value, label |-> label, index |-> index]

Event(type) == [type |-> type, bubbles |-> TRUE]

\* const filter = optionToSelect => ... for the option at the 0-based index
OptionFilter(option, index, optionToSelect) ==
  IF optionToSelect.node # {}
    THEN optionToSelect.node = {index + 1}
    ELSE /\ (optionToSelect.value # {} => optionToSelect.value = {option.value})
         /\ (optionToSelect.label # {} => optionToSelect.label = {option.label})
         /\ (optionToSelect.index # {} => optionToSelect.index = {index})

\* remainingOptionsToSelect.some(filter)
SomeRemaining(option, index, remaining) ==
  \E k \in 1..Len(remaining) : OptionFilter(option, index, remaining[k])

\* remainingOptionsToSelect.filter(o => !filter(o))
RECURSIVE WithoutMatching(_, _, _)
WithoutMatching(option, index, remaining) ==
  IF remaining = <<>> THEN <<>>
  ELSE IF OptionFilter(option, index, Head(remaining))
    THEN WithoutMatching(option, index, Tail(remaining))
  ELSE <<Head(remaining)>> \o WithoutMatching(option, index, Tail(remaining))

\* What is left to select after an option was matched.
RemainingAlwaysFiltered(multiple, option, index, remaining) ==
  WithoutMatching(option, index, remaining)
RemainingAfterMatch(multiple, option, index, remaining) ==
  IF multiple THEN WithoutMatching(option, index, remaining) ELSE <<>>

\* for (let index = 0; index < options.length; index++): the positions of
\* the selected options, in the order of the loop, and what remains.
RECURSIVE SelectLoop(_, _, _, _, _)
SelectLoop(options, multiple, index, remaining, selectedOptions) ==
  IF index >= Len(options)
    THEN [selectedOptions |-> selectedOptions, remaining |-> remaining]
  ELSE IF ~SomeRemaining(options[index + 1], index, remaining)
    THEN SelectLoop(options, multiple, index + 1, remaining, selectedOptions)
  ELSE IF multiple
    THEN SelectLoop(options, multiple, index + 1,
                    RemainingAfterMatch(multiple, options[index + 1], index, remaining),
                    Append(selectedOptions, index + 1))
  ELSE [selectedOptions |-> Append(selectedOptions, index + 1),
        remaining |-> RemainingAfterMatch(multiple, options[index + 1], index,
                                          remaining)]

\* select.value = undefined: no option has that value, so none stays selected.
ClearValue(options) == [i \in 1..Len(options) |-> [options[i] EXCEPT !.selected = FALSE]]
\* selectedOptions.forEach(option => option.selected = true), in that order;
\* in a select that is not multiple at most one option is selected.
RECURSIVE SetSelected(_, _, _)
SetSelected(options, multiple, selectedOptions) ==
  IF selectedOptions = <<>> THEN options
  ELSE SetSelected([i \in 1..Len(options) |->
                      IF i = Head(selectedOptions)
                        THEN [options[i] EXCEPT !.selected = TRUE]
                      ELSE IF multiple THEN options[i]
                      ELSE [options[i] EXCEPT !.selected = FALSE]],
                   multiple, Tail(selectedOptions))

\* What selectOptions did: how it ended, the options afterwards, whether
\* select.value was assigned, the events dispatched and the message logged.
SelectOutcome(kind, value, options, cleared, events, log) ==
  [kind |-> kind, value |-> value, options |-> options, cleared |-> cleared,
   events |-> events, log |-> log]

\* The end of selectOptions, after the loop over the options.
SelectEnd(select, loop) ==
  IF loop.remaining # <<>>
    THEN SelectOutcome("continue", <<>>, select.options, FALSE, <<>>,
                       [op |-> "logRepeating",
                        message |-> "    did not find some options - waiting... "])
    ELSE SelectOutcome("return",
                       [k \in 1..Len(loop.selectedOptions) |->
                          select.options[loop.selectedOptions[k]].value],
                       SetSelected(ClearValue(select.options), select.multiple,
                                   loop.selectedOptions),
                       TRUE, <<Event("input"), Event("change")>>,
                       [op |-> "log", message |-> "    selected specified option(s)"])

SelectFound(optionsToSelect, found) ==
  IF found = {}
    THEN SelectOutcome("return", "error:notconnected", <<>>, FALSE, <<>>, NoLog)
  ELSE IF The(found).nodeName # "SELECT"
    THEN SelectOutcome("throw", "Element is not a <select> element",
                       The(found).options, FALSE, <<>>, NoLog)
  ELSE SelectEnd(The(found),
                 SelectLoop(The(found).options, The(found).multiple, 0,
                            optionsToSelect, <<>>))

selectOptions(optionsToSelect, node) ==
  SelectFound(optionsToSelect, retarget(node, "follow-label"))

(* ====================================================================== *)
(*                              deepEquals                                *)
(* ====================================================================== *)

(* JavaScript values: a type tag t and, for a primitive, its value v as a   *)
(* string (a number as its decimal string); an array has the sequence of   *)
(* its items, a plain object the sequence of its own properties in         *)
(* insertion order.                                                        *)
Num(n) == [t |-> "number", v |-> n]
Str(s) == [t |-> "string", v |-> s]
JsBool(b) == [t |-> "boolean", v |-> Bool(b)]
JsNull == [t |-> "null", v |-> ""]
JsUndefined == [t |-> "undefined", v |-> ""]
Arr(items) == [t |-> "array", items |-> items]
Obj(properties) == [t |-> "object", properties |-> properties]
JsNaN == Num("NaN")

Primitives ==
  {Num(n) : n \in {"0", "1", "2", "NaN"}}
    \cup {Str(s) : s \in {"", "a", "b"}}
    \cup {JsBool(b) : b \in BOOLEAN}
    \cup {JsNull, JsUndefined}
\* What arrays and objects are built from.
Items == {Num("1"), Num("2"), JsNaN, Str("a"), JsNull, Arr(<<Num("1")>>)}
PropertyKeys == {"k", "l"}
Arrays == {Arr(items) : items \in UNION {[1..n -> Items] : n \in 0..MaxItems}}
Objects ==
  {Obj(<<>>)}
    \cup {Obj(<<[key |-> k, value |-> x]>>) : k \in PropertyKeys, x \in Items}
    \cup UNION {{Obj(<<[key |-> k, value |-> x], [key |-> l, value |-> y]>>) :
                    l \in PropertyKeys \ {k}, x \in Items, y \in Items} :
                  k \in PropertyKeys}
JsValues == Primitives \cup Arrays \cup Objects

IsObject(a) == a.t \in {"array", "object"}

\* a === b; same tells whether two objects are one and the same object.
StrictEquals(a, b, same) ==
  /\ a.t = b.t
  /\ IF IsObject(a) THEN same
     ELSE a.v = b.v /\ a # JsNaN

\* The value in a condition: if (a)
Truthy(a) ==
  CASE a.t = "number" -> a.v \notin {"0", "NaN"}
    [] a.t = "string" -> a.v # ""
    [] a.t = "boolean" -> a.v = Bool(TRUE)
    [] a.t \in {"null", "undefined"} -> FALSE
    [] OTHER -> TRUE

\* String(a), as Number(a) of an object needs it: an array joins its items
\* with commas, null and undefined items giving the empty string.
RECURSIVE ToStringOf(_)
JoinItems(items) ==
  IF Len(items) = 0 THEN ""
  ELSE LET ItemString(x) == IF x.t \in {"null", "undefined"} THEN "" ELSE ToStringOf(x)
           Join[i \in 1..Len(items)] ==
             IF i = 1 THEN ItemString(items[1])
             ELSE Join[i - 1] \o "," \o ItemString(items[i])
       IN Join[Len(items)]
ToStringOf(a) ==
  CASE a.t = "array" -> JoinItems(a.items)
    [] a.t = "object" -> "[object Object]"
    [] a.t \in {"null", "undefined"} -> a.t
    [] OTHER -> a.v

\* The strings of the model that Number() converts to a number.
NumericStrings == {"", "0", "1", "2"}

\* isNaN(a): Number(a) is NaN.
isNaN(a) ==
  CASE a.t = "number" -> a = JsNaN
    [] a.t = "string" -> a.v \notin NumericStrings
    [] a.t = "boolean" -> FALSE
    [] a.t = "null" -> FALSE
    [] a.t = "undefined" -> TRUE
    [] OTHER -> ToStringOf(a) \notin NumericStrings

\* return isNaN(a) === isNaN(b);
NeverEqualByNaN(a, b) == FALSE
EqualByNaN(a, b) == isNaN(a) = isNaN(b)

Keys(a) == {a.properties[i].key : i \in 1..Len(a.properties)}
Get(a, key) ==
  a.properties[CHOOSE i \in 1..Len(a.properties) : a.properties[i].key = key].value

\* Neither a RegExp nor an object with its own valueOf or toString is among
\* the values, so those branches are not taken.
RECURSIVE deepEquals(_, _, _)
deepEquals(a, b, same) ==
  IF StrictEquals(a, b, same) THEN TRUE
  ELSE IF Truthy(a) /\ Truthy(b) /\ IsObject(a) /\ IsObject(b)
    THEN IF a.t # b.t THEN FALSE
         ELSE IF a.t = "array"
           THEN /\ Len(a.items) = Len(b.items)
                /\ \A i \in 1..Len(a.items) :
                     deepEquals(a.items[i], b.items[i], FALSE)
         ELSE /\ Len(a.properties) = Len(b.properties)
              /\ Keys(a) \subseteq Keys(b)
              /\ \A key \in Keys(a) : deepEquals(Get(a, key), Get(b, key), FALSE)
  ELSE EqualByNaN(a, b)

(* ====================================================================== *)
(*                     ExpectedTextMatcher and expect                     *)
(* ====================================================================== *)

(* A text is the sequence of its characters; a value that may be undefined *)
(* or null is a set: empty, or holding the value.                          *)
IsWhiteSpace(c) == c \in {" ", "\t"}

RECURSIVE TrimStart(_)
TrimStart(s) ==
  IF s # <<>> /\ IsWhiteSpace(Head(s)) THEN TrimStart(Tail(s)) ELSE s
RECURSIVE TrimEnd(_)
TrimEnd(s) ==
  IF s # <<>> /\ IsWhiteSpace(s[Len(s)]) THEN TrimEnd(SubSeq(s, 1, Len(s) - 1))
  ELSE s
\* s.trim()
Trim(s) == TrimEnd(TrimStart(s))
\* s.replace(/\s+/g, ' ')
RECURSIVE CollapseWhiteSpace(_)
CollapseWhiteSpace(s) ==
  IF s = <<>> THEN <<>>
  ELSE IF IsWhiteSpace(Head(s)) THEN <<" ">> \o CollapseWhiteSpace(TrimStart(s))
  ELSE <<Head(s)>> \o CollapseWhiteSpace(Tail(s))
\* text.includes(substring)
Includes(text, substring) ==
  \E i \in 0..(Len(text) - Len(substring)) :
    SubSeq(text, i + 1, i + Len(substring)) = substring

\* A regular expression is a literal, anchored at both ends (^literal$) or not.
RegExpTest(regex, text) ==
  IF regex.anchored THEN text = regex.literal ELSE Includes(text, regex.literal)

\* ExpectedTextMatcher.normalizeWhiteSpace of a string that may be undefined.
normalizeWhiteSpace(expected, s) ==
  IF s = {} \/ s = {<<>>} THEN s
  ELSE IF expected.normalizeWhiteSpace
    THEN {CollapseWhiteSpace(Trim(The(s)))}
    ELSE s

\* if (this._normalizeWhiteSpace && !this._regex) text = normalizeWhiteSpace(text)
NormalizesTextAlsoForRegex(expected) == expected.normalizeWhiteSpace
NormalizesText(expected) == expected.normalizeWhiteSpace /\ expected.regex = {}

\* new ExpectedTextMatcher(expected).matches(text)
TextMatches(expected, text) ==
  LET string == IF expected.matchSubstring THEN {}
                ELSE normalizeWhiteSpace(expected, expected.string)
      substring == IF expected.matchSubstring
                     THEN normalizeWhiteSpace(expected, expected.string)
                   ELSE {}
      regex == expected.regex
      normalized ==
        IF NormalizesText(expected)
          THEN The(normalizeWhiteSpace(expected, {text}))
          ELSE text
  IN IF string # {} THEN normalized = The(string)
     ELSE IF substring # {} THEN Includes(normalized, The(substring))
     ELSE IF regex # {} THEN RegExpTest(The(regex), normalized)
     ELSE FALSE

\* What expect does: a result with pass, the continue-polling value, or a
\* throw; with it the value published through setIntermediateResult and the
\* value logged as unexpected, if any.
ExpectResult(pass, received) ==
  [kind |-> "result", pass |-> {pass}, received |-> received, message |-> "",
   published |-> <<>>, logged |-> <<>>]
ExpectPolling(published, logged) ==
  [kind |-> "continue", pass |-> {}, received |-> <<>>, message |-> "",
   published |-> published, logged |-> logged]
ExpectThrow(message) ==
  [kind |-> "throw", pass |-> {}, received |-> <<>>, message |-> message,
   published |-> <<>>, logged |-> <<>>]

\* if (matches === options.isNot) { publish; log; return continuePolling; }
\* return { received, pass: !options.isNot };
PollsWhenMatchesDiffers(isMatch, isNot) == isMatch # isNot
PollsWhenMatchesIsNot(isMatch, isNot) == isMatch = isNot

Settle(isMatch, isNot, received, returned) ==
  IF PollsWhenMatchesIsNot(isMatch, isNot)
    THEN ExpectPolling(<<received>>, <<received>>)
    ELSE ExpectResult(~isNot, returned)

StateExpressions ==
  [e \in {"to.be.checked", "to.be.disabled", "to.be.editable", "to.be.enabled",
          "to.be.hidden", "to.be.visible"} |->
     CASE e = "to.be.checked" -> "checked"
       [] e = "to.be.disabled" -> "disabled"
       [] e = "to.be.editable" -> "editable"
       [] e = "to.be.enabled" -> "enabled"
       [] e = "to.be.hidden" -> "hidden"
       [] OTHER -> "visible"]
BooleanExpressions == DOMAIN StateExpressions \cup {"to.be.empty", "to.be.focused"}
TextExpressions ==
  {"to.have.attribute", "to.have.class", "to.have.css", "to.have.id",
   "to.have.text", "to.have.title", "to.have.url", "to.have.value"}
ArrayExpressions == {"to.have.text.array", "to.have.class.array"}

\* Element state / boolean values: the state, or undefined (the empty set).
BooleanValue(expression, element) ==
  IF expression \in DOMAIN StateExpressions
    THEN elementState(PlainNode(element.dom), StateExpressions[expression])
  ELSE IF expression = "to.be.empty"
    THEN IF element.dom.nodeName \in {"INPUT", "TEXTAREA"}
           THEN Return(Bool(element.value = <<>>))
           ELSE Return(Bool(Trim(element.textContent) = <<>>))
  ELSE Return(Bool(element.focused))

\* Single text value: the text, undefined (the empty set), or a throw.
TextValue(expression, element, options) ==
  CASE expression = "to.have.attribute" ->
         Return(IF element.attribute = {} THEN {<<>>} ELSE element.attribute)
    [] expression = "to.have.class" -> Return({element.className})
    [] expression = "to.have.css" -> Return(element.css)
    [] expression = "to.have.id" -> Return({element.id})
    [] expression = "to.have.text" ->
         Return({IF options.useInnerText THEN element.innerText
                 ELSE element.textContent})
    [] expression = "to.have.title" -> Return({element.title})
    [] expression = "to.have.url" -> Return({element.href})
    [] expression = "to.have.value" ->
         IF element.dom.nodeName \notin {"INPUT", "TEXTAREA", "SELECT"}
           THEN Throw("Not an input element")
           ELSE Return({element.value})
    [] OTHER -> Return({})

\* List of values: the texts of the elements.
ArrayValue(expression, elements, options) ==
  [i \in 1..Len(elements) |->
     IF expression = "to.have.class.array" THEN elements[i].className
     ELSE IF options.useInnerText THEN elements[i].innerText
     ELSE elements[i].textContent]

\* if (received.length !== options.expectedText.length)
LengthsNeverDiffer(received, expectedText) == FALSE
LengthsDiffer(received, expectedText) == Len(received) # Len(expectedText)

\* The index at which the loop over the received list stops to keep polling.
StopsAt(received, expectedText, isNot) ==
  {i \in 1..Len(received) : TextMatches(expectedText[i], received[i]) = isNot}

Unknown(expression) == ExpectThrow("Unknown expect matcher: " \o expression)

expect(expression, element, options, elements) ==
  IF expression \in BooleanExpressions
    THEN LET state == BooleanValue(expression, element)
         IN IF state.kind = "throw" THEN ExpectThrow(state.value)
            ELSE IF state.value = "error:notcheckbox"
              THEN ExpectThrow("Element is not a checkbox")
            ELSE IF state.value = "error:notconnected"
              THEN ExpectThrow("Element is not connected")
            ELSE Settle(state.value = Bool(TRUE), options.isNot, state.value, <<>>)
  ELSE IF expression = "to.have.count"
    THEN Settle(Len(elements) = options.expectedNumber, options.isNot,
                Len(elements), <<Len(elements)>>)
  ELSE IF expression = "to.have.property"
    THEN Settle(deepEquals(element.property, options.expectedValue, FALSE),
                options.isNot, element.property, <<element.property>>)
  ELSE IF expression \in TextExpressions
    THEN LET received == TextValue(expression, element, options)
         IN IF received.kind = "throw" THEN ExpectThrow(received.value)
            ELSE IF received.value = {} \/ options.expectedText = {}
              THEN Unknown(expression)
            ELSE IF The(options.expectedText) = <<>>
              THEN ExpectThrow("TypeError")
            ELSE Settle(TextMatches(The(options.expectedText)[1], The(received.value)),
                        options.isNot, The(received.value), <<The(received.value)>>)
  ELSE IF expression \in ArrayExpressions
    THEN LET received == ArrayValue(expression, elements, options)
         IN IF options.expectedText = {} THEN Unknown(expression)
            ELSE IF LengthsDiffer(received, The(options.expectedText))
              THEN ExpectPolling(<<received>>, <<>>)
            ELSE IF StopsAt(received, The(options.expectedText), options.isNot) # {}
              THEN ExpectPolling(<<received>>, <<>>)
            ELSE ExpectResult(~options.isNot, <<received>>)
  ELSE Unknown(expression)

(* ====================================================================== *)
(*                          fill and selectText                           *)
(* ====================================================================== *)

kDateTypes == {"date", "time", "datetime", "datetime-local", "month", "week"}
kTextInputTypes == {"", "email", "number", "password", "search", "tel", "text", "url"}

IsDigit(c) == c \in {"1", "2"}
\* isNaN(Number(value)): Number skips white space at both ends, converts the
\* empty text to 0 and a run of digits to its number; any other text is NaN.
NumberIsNaN(value) == \E i \in 1..Len(Trim(value)) : ~IsDigit(Trim(value)[i])

\* The value sanitization of a date-like input: a value that is no valid
\* string of the type reads back as the empty text. A valid one is two digits.
IsValidDate(value) == Len(value) = 2 /\ IsDigit(value[1]) /\ IsDigit(value[2])
ReadBack(value) == IF IsValidDate(value) THEN value ELSE <<>>

\* if (input.value !== value) throw 'Malformed value'
NeverMalformed(readBack, value) == FALSE
Malformed(readBack, value) == readBack # value

\* What fill did: how it ended, the value of the element afterwards, whether
\* it was focused and its text selected, and the events dispatched.
FillOutcome(kind, value, elementValue, focused, selected, events, log) ==
  [kind |-> kind, value |-> value, elementValue |-> elementValue,
   focused |-> focused, selected |-> selected, events |-> events, log |-> log]

\* selectText(element): input.select(), the textarea's selection range, or a
\* range over the contents; then focus(). The element retargets to itself.
selectText(node) ==
  IF retarget(node, "follow-label") = {} THEN "error:notconnected" ELSE "done"

\* this.selectText(element); return 'needsinput';
NeedsInput(element) ==
  FillOutcome("return", "needsinput", element.value,
              selectText(PlainNode(element)) = "done",
              selectText(PlainNode(element)) = "done", <<>>, NoLog)

\* if (kDateTypes.has(type)) { ... return 'done'; }
FillDate(element, trimmed) ==
  IF Malformed(ReadBack(trimmed), trimmed)
    THEN FillOutcome("throw", "Malformed value", ReadBack(trimmed), TRUE, FALSE,
                     <<>>, NoLog)
    ELSE FillOutcome("return", "done", ReadBack(trimmed), TRUE, FALSE,
                     <<Event("input"), Event("change")>>, NoLog)

FillInput(value, element) ==
  IF element.type \notin kTextInputTypes /\ element.type \notin kDateTypes
    THEN FillOutcome("throw",
                     "Input of type \"" \o element.type \o "\" cannot be filled",
                     element.value, FALSE, FALSE, <<>>,
                     [op |-> "log",
                      message |-> "    input of type \"" \o element.type
                                    \o "\" cannot be filled"])
  ELSE IF element.type = "number" /\ NumberIsNaN(Trim(value))
    THEN FillOutcome("throw", "Cannot type text into input[type=number]",
                     element.value, FALSE, FALSE, <<>>, NoLog)
  ELSE IF element.type \in kDateTypes
    THEN FillDate(element, Trim(value))
  ELSE NeedsInput(element)

FillFound(value, found) ==
  IF found = {}
    THEN FillOutcome("return", "error:notconnected", <<>>, FALSE, FALSE, <<>>, NoLog)
  ELSE IF The(found).nodeName = "INPUT"
    THEN FillInput(value, The(found))
  ELSE IF The(found).nodeName = "TEXTAREA"
    THEN NeedsInput(The(found))
  ELSE IF ~The(found).isContentEditable
    THEN FillOutcome("throw",
                     "Element is not an <input>, <textarea> or [contenteditable] element",
                     The(found).value, FALSE, FALSE, <<>>, NoLog)
  ELSE NeedsInput(The(found))

fill(value, node) == FillFound(value, retarget(node, "follow-label"))

(* ====================================================================== *)
(*                           checkHitTargetAt                             *)
(* ====================================================================== *)

(* The page the hit test runs on: a body with a dialog and a shadow host;   *)
(* the host's shadow root holds a button with a span in it. An element     *)
(* that is absent (null, undefined) is the empty set.                      *)
HitElements == {"body", "dialog", "host", "button", "span"}
\* element.parentElement
ParentElement(element) ==
  CASE element = "dialog" -> {"body"}
    [] element = "host" -> {"body"}
    [] element = "span" -> {"button"}
    [] OTHER -> {}
\* The host of the shadow root that is the element's parent node.
ParentShadowHost(element) == IF element = "button" THEN {"host"} ELSE {}
\* element.shadowRoot: the shadow root is named by its host.
ShadowRoot(element) == IF element = "host" THEN {"host"} ELSE {}
\* The document as a container of elementsFromPoint.
Document == "document"

\* parentElementOrShadowHost of selectorEvaluator.ts
parentElementOrShadowHost(element) ==
  IF ParentElement(element) # {} THEN ParentElement(element)
  ELSE ParentShadowHost(element)

\* element.closest('button, [role=button]') || element
RECURSIVE ClosestButton(_, _)
ClosestButton(element, from) ==
  IF from = "button" THEN from
  ELSE IF ParentElement(from) = {} THEN element
  ELSE ClosestButton(element, The(ParentElement(from)))

\* deepElementFromPoint: elements gives elementsFromPoint(x, y)[0] of the
\* document and of the shadow root.
RECURSIVE DeepLoop(_, _, _)
DeepLoop(elements, container, element) ==
  IF container = {} THEN element
  ELSE IF elements[The(container)] = {} \/ element = elements[The(container)]
    THEN element
  ELSE DeepLoop(elements, ShadowRoot(The(elements[The(container)])),
                elements[The(container)])
deepElementFromPoint(elements) == DeepLoop(elements, {Document}, {})

\* while (hitElement && hitElement !== element)
NeverClimbs(hitElement, element) == FALSE
Climbs(hitElement, element) == hitElement # {} /\ hitElement # {element}

\* The loop that collects hitParents; it ends with what hitElement is then.
RECURSIVE HitLoop(_, _, _)
HitLoop(hitElement, element, hitParents) ==
  IF Climbs(hitElement, element)
    THEN HitLoop(parentElementOrShadowHost(The(hitElement)), element,
                 Append(hitParents, The(hitElement)))
    ELSE [hitElement |-> hitElement, hitParents |-> hitParents]

\* hitParents.indexOf(element), 0-based; -1 when it is not there
IndexOf(hitParents, element) ==
  IF \E i \in 1..Len(hitParents) : hitParents[i] = element
    THEN (CHOOSE i \in 1..Len(hitParents) :
            /\ hitParents[i] = element
            /\ \A j \in 1..(i - 1) : hitParents[j] # element) - 1
    ELSE 0 - 1

\* previewNode of an element, as far as the hit test goes: its tag.
previewNode(element) == "<" \o element \o ">"

\* The loop that looks for the root of the subtree that covers the element.
RECURSIVE RootLoop(_, _)
RootLoop(hitParents, element) ==
  IF element = {} THEN {}
  ELSE IF IndexOf(hitParents, The(element)) # 0 - 1
    THEN IF IndexOf(hitParents, The(element)) > 1
           THEN {previewNode(hitParents[IndexOf(hitParents, The(element))])}
           ELSE {}
  ELSE RootLoop(hitParents, parentElementOrShadowHost(The(element)))

HitDescription(hitTargetDescription, rootHitTargetDescription) ==
  [kind |-> "description",
   value |-> IF rootHitTargetDescription = {} THEN hitTargetDescription
             ELSE hitTargetDescription \o " from "
                    \o The(rootHitTargetDescription) \o " subtree"]

\* The end of checkHitTargetAt, after the climb from the hit element.
HitEnd(element, climbed) ==
  IF climbed.hitElement = {element} THEN Return("done")
  ELSE IF climbed.hitParents = <<>> THEN Throw("TypeError")
  ELSE HitDescription(previewNode(climbed.hitParents[1]),
                      RootLoop(climbed.hitParents, {element}))

HitTarget(element, elements) ==
  HitEnd(ClosestButton(element, element),
         HitLoop(deepElementFromPoint(elements),
                 ClosestButton(element, element), <<>>))

\* A node is an element or another node (a text node) with the element, if
\* any, that is its parent; an element is in the page or detached from it.
checkHitTargetAt(node, elements) ==
  IF node.element = {} \/ ~node.isConnected
    THEN Return("error:notconnected")
    ELSE HitTarget(The(node.element), elements)

(* ====================================================================== *)
(*                           Query evaluator                              *)
(* ====================================================================== *)

(* The document the queries run against. Node 0 is the root handed to the  *)
(* query; nodes are numbered in document order:                            *)
(*   0 > ( 1:div > ( 2:div > 3:span, 4:span ), 5:span )                    *)
Elements == 0..5
Parent == <<0, 1, 2, 1, 0>>
Tag == <<"div", "div", "span", "span", "span">>
\* The sets of hidden elements a document may have.
HiddenChoices == SUBSET {3, 4}

RECURSIVE IsDescendant(_, _)
IsDescendant(e, root) ==
  IF e = 0 THEN FALSE
  ELSE Parent[e] = root \/ IsDescendant(Parent[e], root)

\* The elements of the set `of`, in document order.
RECURSIVE InDocumentOrder(_)
InDocumentOrder(of) ==
  IF of = {} THEN <<>>
  ELSE LET first == CHOOSE e \in of : \A o \in of : e <= o
       IN <<first>> \o InDocumentOrder(of \ {first})

\* The css engine on a tag name: the descendants of root with that tag.
CssResults ==
  [root \in Elements, body \in {"div", "span"} |->
     InDocumentOrder({e \in Elements \ {0} : Tag[e] = body /\ IsDescendant(e, root)})]
CssQueryAll(root, body) == CssResults[root, body]

\* isVisible of selectorEvaluator.
isVisible(element) == element \notin doc.hidden

\* The parts a selector is built from, and the parsed selectors.
Part(name, body) == [name |-> name, body |-> body]
NthBodies == {"0", "-1", "1", "2"}
Parts ==
  {Part("css", t) : t \in {"div", "span"}}
    \cup {Part("nth", b) : b \in NthBodies}
    \cup {Part("visible", b) : b \in {"true", ""}}
PartSequences == UNION {[1..n -> Parts] : n \in 1..MaxParts}
\* capture is {} for undefined, {k} for the number k.
Selectors ==
  UNION {{[parts |-> ps, capture |-> c] :
            c \in {{}} \cup {{k} : k \in 0..(Len(ps) - 1)}} : ps \in PartSequences}

\* +part.body for the bodies of NthBodies.
ToNumber(body) ==
  CASE body = "0" -> 0 [] body = "1" -> 1 [] body = "2" -> 2 [] body = "-1" -> -1

\* Boolean(part.body) of a string.
ToBoolean(body) == body # ""

\* _queryEngineAll: nth and visible are registered as engines returning [].
_queryEngineAll(part, root) ==
  IF part.name = "css" THEN CssQueryAll(root, part.body) ELSE <<>>

ElementMatch(element, capture) == [element |-> element, capture |-> capture]
ElementsOf(matches) == [i \in 1..Len(matches) |-> matches[i].element]

\* The nth branch for a body other than '0' and '-1': the loop over roots.
RECURSIVE NthLoop(_, _, _, _, _)
NthLoop(roots, nth, i, set, filtered) ==
  IF i > Len(roots) THEN filtered
  ELSE NthLoop(roots, nth, i + 1, set \cup {roots[i].element},
               IF nth + 1 = Cardinality(set \cup {roots[i].element})
                 THEN <<roots[i]>> ELSE filtered)

\* let all = queryResults[index]; if (!all) ...: is the engine to be queried?
CacheMissAlsoWhenEmpty(queryCache, element, index) ==
  \/ <<element, index>> \notin DOMAIN queryCache
  \/ queryCache[<<element, index>>] = <<>>
CacheMiss(queryCache, element, index) ==
  <<element, index>> \notin DOMAIN queryCache

\* The loop over roots of an engine part; acc carries result, queryCache and
\* the engine invocations made so far.
\* One root of the loop of an engine part, given whether queryResults[index]
\* is missing and the list `all` the root gets.
EngineLoopBody(acc, key, capture, miss, all) ==
  [result |-> acc.result \o [j \in 1..Len(all) |-> ElementMatch(all[j], capture)],
   queryCache |-> IF miss THEN (key :> all) @@ acc.queryCache ELSE acc.queryCache,
   calls |-> IF miss THEN Append(acc.calls, key) ELSE acc.calls]

EngineLoopRoot(acc, root, selector, index, miss) ==
  EngineLoopBody(acc, <<root.element, index>>,
    IF (index - 1) \in selector.capture THEN {root.element} ELSE root.capture,
    miss,
    IF miss THEN _queryEngineAll(selector.parts[index + 1], root.element)
    ELSE acc.queryCache[<<root.element, index>>])

\* The loop over roots of an engine part; acc carries result, queryCache and
\* the engine invocations made so far.
RECURSIVE EngineLoop(_, _, _, _, _)
EngineLoop(roots, selector, index, i, acc) ==
  IF i > Len(roots) THEN acc
  ELSE EngineLoop(roots, selector, index, i + 1,
         EngineLoopRoot(acc, roots[i], selector, index,
                        CacheMiss(acc.queryCache, roots[i].element, index)))

CaptureNthError == "Can't query n-th element in a request with the capture."

\* An engine that throws on its body: css on a selector that does not parse.
\* The loop over roots ends at the first root, where the engine is queried.
EngineError == "SyntaxError"
EngineThrows(part) == part.name = "css" /\ part.body = "!"

\* _querySelectorRecursively; index counts from 0 as in the source. The
\* value is [error, matches, calls]: error is "" unless the call threw.
RECURSIVE _querySelectorRecursively(_, _, _, _, _)
_querySelectorRecursively(roots, selector, index, queryCache, calls) ==
  IF index = Len(selector.parts)
    THEN [error |-> "", matches |-> roots, calls |-> calls]
  ELSE
    LET part == selector.parts[index + 1] IN
    IF part.name = "nth" THEN
      IF part.body = "0" THEN
        _querySelectorRecursively(
          IF Len(roots) = 0 THEN <<>> ELSE <<roots[1]>>,
          selector, index + 1, queryCache, calls)
      ELSE IF part.body = "-1" THEN
        _querySelectorRecursively(
          IF Len(roots) = 0 THEN <<>> ELSE <<roots[Len(roots)]>>,
          selector, index + 1, queryCache, calls)
      ELSE IF selector.capture # {} THEN
        [error |-> CaptureNthError, matches |-> <<>>, calls |-> calls]
      ELSE
        _querySelectorRecursively(
          NthLoop(roots, ToNumber(part.body), 1, {}, <<>>),
          selector, index + 1, queryCache, calls)
    ELSE IF part.name = "visible" THEN
      LET visible == ToBoolean(part.body)
          filtered == SelectSeq(roots, LAMBDA match : visible = isVisible(match.element))
      IN [error |-> "", matches |-> filtered, calls |-> calls]
    ELSE IF EngineThrows(part) /\ Len(roots) > 0 THEN
      [error |-> EngineError, matches |-> <<>>,
       calls |-> Append(calls, <<roots[1].element, index>>)]
    ELSE
      LET r == EngineLoop(roots, selector, index, 1,
                 [result |-> <<>>, queryCache |-> queryCache, calls |-> calls])
      IN _querySelectorRecursively(r.result, selector, index + 1, r.queryCache, r.calls)

\* The top-level call both entry points make: a root match and a new Map().
Evaluate(selector, root) ==
  _querySelectorRecursively(<<ElementMatch(root, {})>>, selector, 0, <<>>, <<>>)

\* r.capture || r.element
Projection(match) ==
  IF match.capture # {} THEN CHOOSE c \in match.capture : TRUE ELSE match.element

\* [...set] of a Set filled in the order of the sequence.
RECURSIVE SetInOrder(_, _, _)
SetInOrder(elements, i, set) ==
  IF i > Len(elements) THEN set
  ELSE SetInOrder(elements, i + 1,
         IF \E j \in 1..Len(set) : set[j] = elements[i]
           THEN set ELSE Append(set, elements[i]))

\* The list querySelectorAll builds from the final matches.
ProjectWithoutSet(matches) == [i \in 1..Len(matches) |-> Projection(matches[i])]
ProjectDistinct(matches) ==
  SetInOrder([i \in 1..Len(matches) |-> Projection(matches[i])], 1, <<>>)

StrictViolation == "strict mode violation"

\* if (strict && result.length > 1) throw this.strictModeViolationError(...)
IsStrictViolation(strict, result) == strict /\ Len(result) > 1

\* if (!(root as any)['querySelector']) throw ...: elements are queryable,
\* other nodes (a text node) are not.
Queryable(root) == root \in Elements
NotQueryable ==
  [kind |-> "error", error |-> "Node is not queryable.", value |-> {},
   list |-> <<>>, matches |-> <<>>, calls |-> <<>>, hooks |-> <<>>]

\* this._evaluator.begin(); try { ... } finally { this._evaluator.end(); }
\* hooks lists the calls of begin and end that the call made, in order.
EndOnlyOnReturn(body) ==
  [body EXCEPT !.hooks = IF body.kind = "error" THEN <<"begin">> \o @
                         ELSE <<"begin">> \o @ \o <<"end">>]
TryFinally(body) == [body EXCEPT !.hooks = <<"begin">> \o @ \o <<"end">>]

\* The body of the try block of querySelector, given what the recursion gave.
QuerySelectorBody(r, strict) ==
  IF r.error # ""
    THEN [kind |-> "error", error |-> r.error, value |-> {}, list |-> <<>>,
          matches |-> <<>>, calls |-> r.calls, hooks |-> <<>>]
  ELSE IF IsStrictViolation(strict, r.matches)
    THEN [kind |-> "error", error |-> StrictViolation, value |-> {}, list |-> <<>>,
          matches |-> r.matches, calls |-> r.calls, hooks |-> <<>>]
  ELSE [kind |-> "value", error |-> "",
        value |-> IF Len(r.matches) = 0 THEN {} ELSE {Projection(r.matches[1])},
        list |-> <<>>, matches |-> r.matches, calls |-> r.calls, hooks |-> <<>>]

\* querySelector(selector, root, strict): value is {} for undefined.
querySelector(selector, root, strict) ==
  IF ~Queryable(root) THEN NotQueryable
  ELSE TryFinally(QuerySelectorBody(Evaluate(selector, root), strict))

\* The body of the try block of querySelectorAll.
QuerySelectorAllBody(r) ==
  IF r.error # ""
    THEN [kind |-> "error", error |-> r.error, value |-> {}, list |-> <<>>,
          matches |-> <<>>, calls |-> r.calls, hooks |-> <<>>]
    ELSE [kind |-> "list", error |-> "", value |-> {},
          list |-> ProjectDistinct(r.matches),
          matches |-> r.matches, calls |-> r.calls, hooks |-> <<>>]

\* querySelectorAll(selector, root)
querySelectorAll(selector, root) ==
  IF ~Queryable(root) THEN NotQueryable
  ELSE TryFinally(QuerySelectorAllBody(Evaluate(selector, root)))

QueryIdle ==
  [status |-> "idle", op |-> "", selector |-> <<>>, root |-> 0, strict |-> FALSE,
   outcome |-> <<>>]

\* A caller runs querySelector on a parsed selector.
QuerySelector(selector, root, strict) ==
  /\ query.status = "idle"
  /\ query' = [status |-> "done", op |-> "querySelector", selector |-> selector,
               root |-> root, strict |-> strict,
               outcome |-> querySelector(selector, root, strict)]
  /\ UNCHANGED doc
  /\ UNCHANGED <<pollVars, wait, call>>

\* A caller runs querySelectorAll on a parsed selector.
QuerySelectorAll(selector, root) ==
  /\ query.status = "idle"
  /\ query' = [status |-> "done", op |-> "querySelectorAll", selector |-> selector,
               root |-> root, strict |-> FALSE,
               outcome |-> querySelectorAll(selector, root)]
  /\ UNCHANGED doc
  /\ UNCHANGED <<pollVars, wait, call>>

\* The caller has taken the outcome; the parsed selector is discarded.
QueryReturn ==
  /\ query.status = "done"
  /\ query' = QueryIdle
  /\ UNCHANGED doc
  /\ UNCHANGED <<pollVars, wait, call>>

\* The roots a query is started from: the document root and the outer div.
QueryRoots == {0, 1}

InitQuery ==
  /\ PollInit
  /\ doc \in {[hidden |-> h] : h \in HiddenChoices}
  /\ query = QueryIdle
  /\ wait = WaitIdle
  /\ call = NoPureCall

\* A call can start when the previous one has returned.
CallEnabled == query.status = "idle"

NextQuery ==
  \/ CallEnabled /\ \E selector \in Selectors, root \in QueryRoots, strict \in BOOLEAN :
                       QuerySelector(selector, root, strict)
  \/ CallEnabled /\ \E selector \in Selectors, root \in QueryRoots :
                       QuerySelectorAll(selector, root)
  \/ QueryReturn

SpecQuery == InitQuery /\ [][NextQuery]_vars

(* ====================================================================== *)
(*                           Specifications                               *)
(* ====================================================================== *)

Init ==
  /\ PollInit
  /\ doc = [hidden |-> {}]
  /\ query = QueryIdle
  /\ wait = WaitIdle
  /\ call = NoPureCall

Next ==
  \/ Run
  \/ Tick
  \/ \E message \in Messages : Log(message)
  \/ \E message \in Messages : LogRepeating(message)
  \/ \E v \in IntermediateResults : SetIntermediateResult(v)
  \/ \E success \in PredicateValues \cup MintedSentinels : PredicateReturns(success)
  \/ PredicateContinues
  \/ \E message \in ErrorMessages : PredicateThrows(message)
  \/ Finally
  \/ TakeNextLogs
  \/ Cancel

Spec == Init /\ [][Next]_vars

\* The readiness wait: every list of states, forced or not, on every page.
StableRafCounts == {1, 2}

InitWait ==
  /\ PollInit
  /\ doc = [hidden |-> {}]
  /\ query = QueryIdle
  /\ call = NoPureCall
  /\ wait \in {Wait(states, force, stableRafCount) :
                 states \in StateLists, force \in BOOLEAN,
                 stableRafCount \in StableRafCounts}

NextWait ==
  \/ \E node \in WaitNodes, callback \in CallbackResults : WaitRun(node, callback)
  \/ \E node \in WaitNodes, dt \in FrameDeltas, callback \in CallbackResults :
       WaitTick(node, dt, callback, MaxWaitTicks)
  \/ Finally

SpecWait == InitWait /\ [][NextWait]_vars

\* elementState on every node and every state.
NoResult == [kind |-> "none", value |-> ""]

InitState ==
  /\ PollInit
  /\ doc = [hidden |-> {}]
  /\ query = QueryIdle
  /\ wait = WaitIdle
  /\ call \in {[fn |-> "elementState", node |-> node, state |-> state,
                 done |-> FALSE, result |-> NoResult] :
                  node \in Nodes, state \in ElementStates}

ElementStateCall ==
  /\ call.fn = "elementState"
  /\ ~call.done
  /\ call' = [call EXCEPT !.done = TRUE,
                          !.result = elementState(call.node, call.state)]
  /\ UNCHANGED <<pollVars, queryVars, wait>>

NextState == ElementStateCall

SpecState == InitState /\ [][NextState]_vars

\* deepEquals on every pair of values; two objects that are equal as values
\* may be one and the same object.
InitEquals ==
  /\ PollInit
  /\ doc = [hidden |-> {}]
  /\ query = QueryIdle
  /\ wait = WaitIdle
  /\ call \in {[fn |-> "deepEquals", a |-> a, b |-> b, same |-> same,
                 done |-> FALSE, result |-> FALSE] :
                  a \in JsValues, b \in JsValues, same \in BOOLEAN}
  /\ call.same => (call.a = call.b /\ IsObject(call.a))

DeepEqualsCall ==
  /\ call.fn = "deepEquals"
  /\ ~call.done
  /\ call' = [call EXCEPT !.done = TRUE,
                          !.result = deepEquals(call.a, call.b, call.same)]
  /\ UNCHANGED <<pollVars, queryVars, wait>>

NextEquals == DeepEqualsCall

SpecEquals == InitEquals /\ [][NextEquals]_vars

\* expect on every expression: the receivers, lists and options that matter
\* to the expression, everything else at its default.
ExpectTexts == {<<>>, <<"a">>, <<" ", "a">>}
ExpectedTexts ==
  {[string |-> {<<"a">>}, matchSubstring |-> FALSE, normalizeWhiteSpace |-> FALSE,
    regex |-> {}],
   [string |-> {<<"a">>}, matchSubstring |-> TRUE, normalizeWhiteSpace |-> TRUE,
    regex |-> {}],
   [string |-> {}, matchSubstring |-> FALSE, normalizeWhiteSpace |-> FALSE,
    regex |-> {[anchored |-> TRUE, literal |-> <<>>]}]}
ExpectedLists == UNION {[1..n -> ExpectedTexts] : n \in 0..MaxItems}
PropertyValues == Primitives \cup {Arr(<<Num("1")>>), Arr(<<Num("2")>>)}

BlankElement ==
  [dom |-> WaitElement, focused |-> FALSE, value |-> <<>>, textContent |-> <<>>,
   innerText |-> <<>>, className |-> <<>>, id |-> <<>>, attribute |-> {},
   css |-> {}, property |-> JsUndefined, title |-> <<>>, href |-> <<>>]
BlankOptions ==
  [isNot |-> FALSE, expectedNumber |-> 0, expectedValue |-> JsUndefined,
   expectedText |-> {}, useInnerText |-> FALSE]

\* The elements of a list: their text and their class.
ListElements ==
  {[BlankElement EXCEPT !.textContent = t, !.className = c] :
     t \in ExpectTexts, c \in {<<>>, <<"a">>}}
ElementLists == UNION {[1..n -> ListElements] : n \in 0..MaxItems}

\* The element whose property that the expression reads is the text t, or is
\* not set when t is the empty set.
TextElements(expression) ==
  LET Text(t) == IF t = {} THEN <<>> ELSE The(t)
  IN {[BlankElement EXCEPT
         !.attribute = IF expression = "to.have.attribute" THEN t ELSE @,
         !.className = IF expression = "to.have.class" THEN Text(t) ELSE @,
         !.css = IF expression = "to.have.css" THEN t ELSE @,
         !.id = IF expression = "to.have.id" THEN Text(t) ELSE @,
         !.textContent = IF expression = "to.have.text" THEN Text(t) ELSE @,
         !.innerText = IF expression = "to.have.text" THEN <<"a">> ELSE @,
         !.title = IF expression = "to.have.title" THEN Text(t) ELSE @,
         !.href = IF expression = "to.have.url" THEN Text(t) ELSE @,
         !.value = IF expression = "to.have.value" THEN Text(t) ELSE @,
         !.dom = [@ EXCEPT !.nodeName = name]] :
       t \in {{}} \cup {{x} : x \in ExpectTexts},
       name \in IF expression = "to.have.value" THEN {"INPUT", "DIV"} ELSE {"INPUT"}}

ExpectCall(expression, element, elements, options) ==
  [fn |-> "expect", expression |-> expression, element |-> element,
   elements |-> elements, options |-> options, done |-> FALSE,
   result |-> NoResult]

StateCalls ==
  {ExpectCall(e, [BlankElement EXCEPT !.dom = dom], <<>>,
              [BlankOptions EXCEPT !.isNot = n]) :
     e \in DOMAIN StateExpressions, dom \in DomElements, n \in BOOLEAN}
EmptyCalls ==
  {ExpectCall("to.be.empty",
              [BlankElement EXCEPT !.dom = [@ EXCEPT !.nodeName = name],
                                   !.value = v, !.textContent = t],
              <<>>, [BlankOptions EXCEPT !.isNot = n]) :
     name \in {"INPUT", "DIV"}, v \in ExpectTexts, t \in ExpectTexts, n \in BOOLEAN}
FocusedCalls ==
  {ExpectCall(e, [BlankElement EXCEPT !.focused = f], <<>>,
              [BlankOptions EXCEPT !.isNot = n]) :
     e \in {"to.be.focused", "to.be.unknown"}, f \in BOOLEAN, n \in BOOLEAN}
CountCalls ==
  {ExpectCall("to.have.count", BlankElement, [i \in 1..length |-> BlankElement],
              [BlankOptions EXCEPT !.isNot = n, !.expectedNumber = k]) :
     length \in 0..MaxItems, k \in 0..MaxItems, n \in BOOLEAN}
PropertyCalls ==
  {ExpectCall("to.have.property", [BlankElement EXCEPT !.property = received],
              <<>>, [BlankOptions EXCEPT !.isNot = n, !.expectedValue = expected]) :
     received \in PropertyValues, expected \in PropertyValues, n \in BOOLEAN}
TextCalls ==
  UNION {{ExpectCall(e, element, <<>>,
                     [BlankOptions EXCEPT !.isNot = n, !.expectedText = expected,
                                          !.useInnerText = inner]) :
            element \in TextElements(e),
            expected \in {{}, {<<>>}} \cup {{<<x>>} : x \in ExpectedTexts},
            inner \in IF e = "to.have.text" THEN BOOLEAN ELSE {FALSE},
            n \in BOOLEAN} :
         e \in TextExpressions}
ArrayCalls ==
  {ExpectCall(e, BlankElement, elements,
              [BlankOptions EXCEPT !.isNot = n, !.expectedText = expected]) :
     e \in ArrayExpressions, elements \in ElementLists,
     expected \in {{}} \cup {{l} : l \in ExpectedLists}, n \in BOOLEAN}
ExpectCalls ==
  StateCalls \cup EmptyCalls \cup FocusedCalls \cup CountCalls
    \cup PropertyCalls \cup TextCalls \cup ArrayCalls

InitExpect ==
  /\ PollInit
  /\ doc = [hidden |-> {}]
  /\ query = QueryIdle
  /\ wait = WaitIdle
  /\ call \in ExpectCalls

ExpectCallReturns ==
  /\ call.fn = "expect"
  /\ ~call.done
  /\ call' = [call EXCEPT !.done = TRUE,
                          !.result = expect(call.expression, call.element,
                                            call.options, call.elements)]
  /\ UNCHANGED <<pollVars, queryVars, wait>>

NextExpect == ExpectCallReturns

SpecExpect == InitExpect /\ [][NextExpect]_vars

\* A poll whose predicate is expect: each tick calls expect on what the page
\* holds then, with the progress object of the poll.

\* An array is an object with an identity: elements.map builds a new one in
\* every call of expect, told from the others by the number of the tick. A
\* primitive has no identity (object 0). undefined is the empty set.
NoIntermediateResult == [value |-> {}, object |-> 0]
Published(expression, published, tick) ==
  [value |-> {published[1]},
   object |-> IF expression \in ArrayExpressions THEN tick ELSE 0]

\* if (lastIntermediateResult === intermediateResult) return;
SuppressedByContent(last, intermediateResult) == last.value = intermediateResult.value
Suppressed(last, intermediateResult) == last = intermediateResult

\* unsentLog.push(entry); logReady(); for each entry in turn.
RECURSIVE PushAll(_, _, _, _)
PushAll(cb, log, proms, entries) ==
  IF entries = <<>> THEN [cb |-> cb, log |-> log, proms |-> proms]
  ELSE LET r == logReady(cb, Append(log, Head(entries)), proms)
       IN PushAll(r.cb, r.log, r.proms, Tail(entries))

AppendEntries(entries) ==
  LET r == PushAll(takeNextLogsCallback, unsentLog, takePromises, entries)
  IN /\ unsentLog' = r.log
     /\ takeNextLogsCallback' = r.cb
     /\ takePromises' = r.proms
     /\ emitted' = emitted \o entries

\* progress.log(`  unexpected value "${received}"`)
UnexpectedValue(received) == <<"  unexpected value ", received>>

\* expect returned continuePolling after setIntermediateResult(received) and,
\* but for the lists, log(...): scheduleNext(next).
ExpectContinues(outcome, intermediateResult) ==
  /\ AppendEntries(
       (IF Suppressed(lastIntermediateResult, intermediateResult) THEN <<>>
        ELSE <<IntermediateResultEntry(intermediateResult.value)>>)
       \o (IF outcome.logged = <<>> THEN <<>>
           ELSE <<MessageEntry(UnexpectedValue(outcome.logged[1]))>>))
  /\ lastIntermediateResult' = intermediateResult
  /\ lastMessage' = IF outcome.logged = <<>> THEN lastMessage
                    ELSE UnexpectedValue(outcome.logged[1])
  /\ scheduled' = TRUE
  /\ scheduleCalls' = scheduleCalls + 1
  /\ UNCHANGED <<resultState, resultValue>>

\* expect returned a result: fulfill(success).
ExpectFulfills(outcome) ==
  /\ resultState' = "fulfilled"
  /\ resultValue' = outcome
  /\ NoAppend
  /\ UNCHANGED <<lastMessage, lastIntermediateResult, scheduled, scheduleCalls>>

\* expect threw: progress.log('  ' + e.message); reject(e).
ExpectRejects(outcome) ==
  /\ lastMessage' = ThrowMessage(outcome.message)
  /\ AppendEntry(MessageEntry(ThrowMessage(outcome.message)))
  /\ resultState' = "rejected"
  /\ resultValue' = outcome.message
  /\ UNCHANGED <<lastIntermediateResult, scheduled, scheduleCalls>>

ExpectEnds(outcome) ==
  /\ pc' = "idle"
  /\ CASE outcome.kind = "result" -> ExpectFulfills(outcome)
       [] outcome.kind = "throw" -> ExpectRejects(outcome)
       [] OTHER ->
            ExpectContinues(outcome, Published(call.expression, outcome.published,
                                               predicateCalls))
  /\ lastCall' = [op |-> "expect", arg |-> "", appended |-> Len(emitted') - Len(emitted)]
  /\ UNCHANGED <<taskFinished, aborted, started, predicateCalls>>
  /\ UNCHANGED <<queryVars, wait, call>>

\* The predicate of the tick: expect on the current elements.
ExpectPredicate ==
  /\ pc = "predicate"
  /\ call.fn = "expect"
  /\ ExpectEnds(expect(call.expression, call.element, call.options, call.elements))

\* The elements of the page: with text and class 'a', or with neither.
PolledElements ==
  {[BlankElement EXCEPT !.textContent = t, !.className = t] : t \in {<<>>, <<"a">>}}
PolledLists == {<<>>} \cup {<<element>> : element \in PolledElements}
ExpectedA ==
  [string |-> {<<"a">>}, matchSubstring |-> FALSE, normalizeWhiteSpace |-> FALSE,
   regex |-> {}]
PolledCalls ==
  {ExpectCall(e, BlankElement, elements,
              [BlankOptions EXCEPT !.isNot = n, !.expectedText = {<<ExpectedA>>}]) :
     e \in ArrayExpressions, elements \in PolledLists, n \in BOOLEAN}
  \cup {ExpectCall("to.have.text", element, <<>>,
                   [BlankOptions EXCEPT !.isNot = n, !.expectedText = {<<ExpectedA>>}]) :
          element \in PolledElements, n \in BOOLEAN}
  \cup {ExpectCall("to.have.count", BlankElement, elements,
                   [BlankOptions EXCEPT !.isNot = n, !.expectedNumber = 1]) :
          elements \in PolledLists, n \in BOOLEAN}
  \cup {ExpectCall("to.be.unknown", BlankElement, <<>>, BlankOptions)}

\* Between two ticks the page changes: other elements are there.
PageChanges ==
  /\ pc = "idle"
  /\ scheduled
  /\ ~aborted
  /\ \E elements \in PolledLists, element \in PolledElements :
       /\ IF call.expression = "to.have.text"
            THEN elements = call.elements /\ element # call.element
            ELSE elements # call.elements /\ element = call.element
       /\ call' = [call EXCEPT !.elements = elements, !.element = element]
  /\ UNCHANGED <<pollVars, queryVars, wait>>

InitPolled ==
  /\ unsentLog = <<>>
  /\ takeNextLogsCallback = 0
  /\ taskFinished = FALSE
  /\ lastMessage = ""
  /\ lastIntermediateResult = NoIntermediateResult
  /\ aborted = FALSE
  /\ started = FALSE
  /\ resultState = "pending"
  /\ resultValue = Undefined
  /\ scheduled = FALSE
  /\ pc = "idle"
  /\ takePromises = <<>>
  /\ emitted = <<>>
  /\ predicateCalls = 0
  /\ scheduleCalls = 0
  /\ lastCall = NoCall
  /\ doc = [hidden |-> {}]
  /\ query = QueryIdle
  /\ wait = WaitIdle
  /\ call \in PolledCalls

NextPolled ==
  \/ Run
  \/ Tick
  \/ ExpectPredicate
  \/ PageChanges
  \/ Finally
  \/ TakeNextLogs
  \/ Cancel

SpecPolled == InitPolled /\ [][NextPolled]_vars

\* The poll methods: what each hands to poll as scheduleNext, and the timers
\* that scheduleNext sets.
Timer(kind, delay) == [kind |-> kind, delay |-> delay]
Scheduler(kind, delay) == [kind |-> kind, delay |-> delay, attempts |-> 0]

\* next => requestAnimationFrame(next)
pollRaf == Scheduler("requestAnimationFrame", 0)
\* next => setTimeout(next, pollInterval)
pollInterval(interval) == Scheduler("setTimeout", interval)
\* const pollIntervals = [100, 250, 500]; let attempts = 0;
pollIntervals == <<100, 250, 500>>
pollLogScale == Scheduler("logScale", 0)

\* pollIntervals[attempts++] || 1000
LogScaleAlwaysLast(attempts) == 1000
LogScaleDelay(attempts) ==
  IF attempts < Len(pollIntervals) THEN pollIntervals[attempts + 1] ELSE 1000

\* if (this._replaceRafWithTimeout) return this.pollInterval(16, predicate);
\* else return this.pollRaf(predicate);
WaitScheduler(replaceRafWithTimeout) ==
  IF replaceRafWithTimeout THEN pollInterval(16) ELSE pollRaf

\* scheduleNext(next): the timer that is set, and the closure after it.
TimerOf(scheduler) ==
  IF scheduler.kind = "logScale"
    THEN Timer("setTimeout", LogScaleDelay(scheduler.attempts))
    ELSE Timer(scheduler.kind, scheduler.delay)
AfterScheduling(scheduler) ==
  IF scheduler.kind = "logScale"
    THEN [scheduler EXCEPT !.attempts = @ + 1]
    ELSE scheduler

\* A poll started through one of the methods on an instance constructed with
\* or without replaceRafWithTimeout; timers records the timers set.
PollCall(fn, replaceRafWithTimeout, scheduler) ==
  [fn |-> fn, replaceRafWithTimeout |-> replaceRafWithTimeout,
   scheduler |-> scheduler, timers |-> <<>>]
PollCalls ==
  UNION {{PollCall("pollRaf", flag, pollRaf),
          PollCall("pollInterval", flag, pollInterval(100)),
          PollCall("pollLogScale", flag, pollLogScale),
          PollCall("waitForElementStatesAndPerformAction", flag, WaitScheduler(flag))} :
           flag \in BOOLEAN}

\* The predicate returns the tick's sentinel: scheduleNext(next) sets a timer.
TimerContinues ==
  /\ ScheduleNext
  /\ call' = [call EXCEPT !.timers = Append(@, TimerOf(call.scheduler)),
                          !.scheduler = AfterScheduling(call.scheduler)]

\* The timer fires and calls next.
TimerTick == TickWithin(MaxTimerTicks) /\ UNCHANGED <<queryVars, wait, call>>

InitTimers ==
  /\ PollInit
  /\ doc = [hidden |-> {}]
  /\ query = QueryIdle
  /\ wait = WaitIdle
  /\ call \in PollCalls

NextTimers ==
  \/ Run
  \/ TimerTick
  \/ \E success \in PredicateValues : PredicateReturns(success)
  \/ TimerContinues
  \/ \E message \in ErrorMessages : PredicateThrows(message)
  \/ Finally
  \/ TakeNextLogs
  \/ Cancel

SpecTimers == InitTimers /\ [][NextTimers]_vars

\* The evaluator's begin and end hooks over a sequence of query calls: the
\* evaluator counts the calls of each.
Evaluator(begins, ends) == [fn |-> "evaluator", begins |-> begins, ends |-> ends]
CountOf(hooks, hook) == Len(SelectSeq(hooks, LAMBDA h : h = hook))
Hooked(outcome) ==
  Evaluator(call.begins + CountOf(outcome.hooks, "begin"),
            call.ends + CountOf(outcome.hooks, "end"))

\* Selectors of one or two parts, among them an nth part that throws with a
\* capture and an engine that throws; the text node 6 is not queryable.
HookParts ==
  {Part("css", "span"), Part("css", "!"), Part("nth", "0"), Part("nth", "1"),
   Part("visible", "true")}
HookSelectors ==
  {[parts |-> ps, capture |-> c] :
     ps \in UNION {[1..n -> HookParts] : n \in 1..2}, c \in {{}, {0}}}
HookRoots == {0, 1, 6}

HookedQuerySelector(selector, root, strict) ==
  /\ query.status = "idle"
  /\ call.begins < MaxQueries
  /\ query' = [status |-> "done", op |-> "querySelector", selector |-> selector,
               root |-> root, strict |-> strict,
               outcome |-> querySelector(selector, root, strict)]
  /\ call' = Hooked(query'.outcome)
  /\ UNCHANGED doc
  /\ UNCHANGED <<pollVars, wait>>

HookedQuerySelectorAll(selector, root) ==
  /\ query.status = "idle"
  /\ call.begins < MaxQueries
  /\ query' = [status |-> "done", op |-> "querySelectorAll", selector |-> selector,
               root |-> root, strict |-> FALSE,
               outcome |-> querySelectorAll(selector, root)]
  /\ call' = Hooked(query'.outcome)
  /\ UNCHANGED doc
  /\ UNCHANGED <<pollVars, wait>>

InitHooks ==
  /\ PollInit
  /\ doc = [hidden |-> {}]
  /\ query = QueryIdle
  /\ wait = WaitIdle
  /\ call = Evaluator(0, 0)

NextHooks ==
  \/ \E selector \in HookSelectors, root \in HookRoots, strict \in BOOLEAN :
       HookedQuerySelector(selector, root, strict)
  \/ \E selector \in HookSelectors, root \in HookRoots :
       HookedQuerySelectorAll(selector, root)
  \/ QueryReturn

SpecHooks == InitHooks /\ [][NextHooks]_vars

\* dispatchEvent: the static table of type names, and the event constructed.
\* The table is copied entry by entry: its fifth key is 'mouseeenter'.
eventTypeEntries ==
  {<<"auxclick", "mouse">>, <<"click", "mouse">>, <<"dblclick", "mouse">>,
   <<"mousedown", "mouse">>, <<"mouseeenter", "mouse">>, <<"mouseleave", "mouse">>,
   <<"mousemove", "mouse">>, <<"mouseout", "mouse">>, <<"mouseover", "mouse">>,
   <<"mouseup", "mouse">>, <<"mousewheel", "mouse">>,
   <<"keydown", "keyboard">>, <<"keyup", "keyboard">>, <<"keypress", "keyboard">>,
   <<"textInput", "keyboard">>,
   <<"touchstart", "touch">>, <<"touchmove", "touch">>, <<"touchend", "touch">>,
   <<"touchcancel", "touch">>,
   <<"pointerover", "pointer">>, <<"pointerout", "pointer">>,
   <<"pointerenter", "pointer">>, <<"pointerleave", "pointer">>,
   <<"pointerdown", "pointer">>, <<"pointerup", "pointer">>,
   <<"pointermove", "pointer">>, <<"pointercancel", "pointer">>,
   <<"gotpointercapture", "pointer">>, <<"lostpointercapture", "pointer">>,
   <<"focus", "focus">>, <<"blur", "focus">>,
   <<"drag", "drag">>, <<"dragstart", "drag">>, <<"dragend", "drag">>,
   <<"dragover", "drag">>, <<"dragenter", "drag">>, <<"dragleave", "drag">>,
   <<"dragexit", "drag">>, <<"drop", "drag">>}
\* eventType.get(type): the family, or undefined (the empty set)
eventType(type) == {entry[2] : entry \in {e \in eventTypeEntries : e[1] = type}}

\* switch (eventType.get(type)) { case 'mouse': new MouseEvent(...) ... }
EventConstructor(family) ==
  CASE family = {"mouse"} -> "MouseEvent"
    [] family = {"keyboard"} -> "KeyboardEvent"
    [] family = {"touch"} -> "TouchEvent"
    [] family = {"pointer"} -> "PointerEvent"
    [] family = {"focus"} -> "FocusEvent"
    [] family = {"drag"} -> "DragEvent"
    [] OTHER -> "Event"

\* { bubbles: true, cancelable: true, composed: true, ...eventInit }: a
\* property the caller did not give (the empty set) keeps the default.
InitKeys == {"bubbles", "cancelable", "composed"}
SpreadOver(eventInit) ==
  [key \in InitKeys |-> IF eventInit[key] = {} THEN TRUE
                        ELSE CHOOSE b \in eventInit[key] : TRUE]

\* The event that node.dispatchEvent is handed.
dispatchEvent(type, eventInit) ==
  [constructor |-> EventConstructor(eventType(type)), type |-> type,
   init |-> SpreadOver(eventInit)]

\* The type names of the table, mouseenter as it is spelt, and two names of
\* no family.
DispatchedTypes ==
  {entry[1] : entry \in eventTypeEntries} \cup {"mouseenter", "input", "change"}
EventInits == [InitKeys -> {{}, {TRUE}, {FALSE}}]

InitDispatch ==
  /\ PollInit
  /\ doc = [hidden |-> {}]
  /\ query = QueryIdle
  /\ wait = WaitIdle
  /\ call \in {[fn |-> "dispatchEvent", type |-> type, eventInit |-> eventInit,
                 done |-> FALSE, result |-> NoResult] :
                  type \in DispatchedTypes, eventInit \in EventInits}

DispatchEventCall ==
  /\ call.fn = "dispatchEvent"
  /\ ~call.done
  /\ call' = [call EXCEPT !.done = TRUE,
                          !.result = dispatchEvent(call.type, call.eventInit)]
  /\ UNCHANGED <<pollVars, queryVars, wait>>

NextDispatch == DispatchEventCall

SpecDispatch == InitDispatch /\ [][NextDispatch]_vars

\* The readiness wait, not forced, for a list of states that has 'stable',
\* on a node that is not in the document at any tick: retarget finds no
\* element for it, or one that is not connected.
DetachedNodes ==
  {node \in WaitNodes : \A element \in node.noFollowLabel : ~element.isConnected}
StableLists == {states \in StateLists : \E i \in 1..Len(states) : states[i] = "stable"}

InitDetached ==
  /\ PollInit
  /\ doc = [hidden |-> {}]
  /\ query = QueryIdle
  /\ call = NoPureCall
  /\ wait \in {Wait(states, FALSE, stableRafCount) :
                 states \in StableLists, stableRafCount \in StableRafCounts}

NextDetached ==
  \/ \E node \in DetachedNodes, callback \in CallbackResults : WaitRun(node, callback)
  \/ \E node \in DetachedNodes, dt \in FrameDeltas, callback \in CallbackResults :
       WaitTick(node, dt, callback, MaxWaitTicks)
  \/ Finally

SpecDetached == InitDetached /\ [][NextDetached]_vars

(* ------------------------ Locator._withElement ------------------------- *)
(* One call of _withElement of client/locator.ts. monotonicTime() reads    *)
(* the client's clock, call.now, which advances while the call awaits: the *)
(* timeout of the handle's resolution is enforced by the server, on the    *)
(* server's clock and from when the request arrives, so the client's clock *)
(* is not held back by it. An absent timeout (undefined) is the empty set. *)

\* _timeoutSettings.timeout({ timeout }): the timeout given if it is a
\* number, else the default timeout of the page.
timeoutSettingsTimeout(timeout, defaultTimeout) ==
  IF timeout = {} THEN defaultTimeout ELSE The(timeout)
\* const deadline = timeout ? monotonicTime() + timeout : 0
Deadline(timeout, now) == IF timeout # 0 THEN now + timeout ELSE 0
\* deadline ? deadline - monotonicTime() : 0, the timeout handed to the task
TaskTimeout(deadline, now) == IF deadline # 0 THEN deadline - now ELSE 0

\* What the task and dispose() settle with.
TaskOutcomes == {Return("value"), Throw("task failed")}
DisposeOutcomes == {Return("undefined"), Throw("dispose failed")}
\* try { return await task(...) } finally { await handle.dispose() }: what
\* the caller gets is the task's outcome unless dispose() throws.
TryFinallyOutcome(tried, disposed) ==
  IF disposed.kind = "throw" THEN disposed ELSE tried

InitLocator ==
  /\ PollInit
  /\ doc = [hidden |-> {}]
  /\ query = QueryIdle
  /\ wait = WaitIdle
  /\ call \in {[fn |-> "_withElement", at |-> "called", timeoutArg |-> t,
                 defaultTimeout |-> d, now |-> 0, timeout |-> 0,
                 deadline |-> 0, resolved |-> {}, events |-> <<>>,
                 taskTimeout |-> {}, taskAt |-> 0, taskOutcome |-> NoResult,
                 result |-> NoResult] :
                  t \in {{}, {0}, {1}, {2}}, d \in {0, 3}}

\* Lines 37-39 up to the await: the timeout, the deadline, and the request
\* for the handle.
WithElementStart ==
  /\ call.fn = "_withElement" /\ call.at = "called"
  /\ call' = [call EXCEPT
       !.at = "resolving",
       !.timeout = timeoutSettingsTimeout(call.timeoutArg, call.defaultTimeout),
       !.deadline =
          Deadline(timeoutSettingsTimeout(call.timeoutArg, call.defaultTimeout),
                   call.now)]
  /\ UNCHANGED <<pollVars, queryVars, wait>>

\* The client's clock advances while _withElement awaits.
ClockAdvances ==
  /\ call.fn = "_withElement"
  /\ call.at \in {"resolving", "task", "disposing"}
  /\ call.now < MaxClock
  /\ call' = [call EXCEPT !.now = @ + 1]
  /\ UNCHANGED <<pollVars, queryVars, wait>>

\* await this.elementHandle({ timeout }) settles: it throws, or gives no
\* handle (the Error of line 41), or gives the handle and the task is called.
HandleResolves(resolution) ==
  /\ call.fn = "_withElement" /\ call.at = "resolving"
  /\ call' =
       CASE resolution = "throws" ->
              [call EXCEPT !.at = "settled", !.resolved = {resolution},
                           !.result = Throw("TimeoutError")]
         [] resolution = "null" ->
              [call EXCEPT !.at = "settled", !.resolved = {resolution},
                           !.result = Throw("Could not resolve")]
         [] OTHER ->
              [call EXCEPT !.at = "task", !.resolved = {resolution},
                           !.events = Append(@, "task"),
                           !.taskAt = call.now,
                           !.taskTimeout =
                              {TaskTimeout(call.deadline, call.now)}]
  /\ UNCHANGED <<pollVars, queryVars, wait>>

\* The task's promise settles and the finally block calls handle.dispose().
TaskSettles(outcome) ==
  /\ call.fn = "_withElement" /\ call.at = "task"
  /\ call' = [call EXCEPT !.at = "disposing", !.taskOutcome = outcome,
                          !.events = @ \o <<"task settled", "dispose">>]
  /\ UNCHANGED <<pollVars, queryVars, wait>>

\* handle.dispose() settles and _withElement ends.
DisposeSettles(outcome) ==
  /\ call.fn = "_withElement" /\ call.at = "disposing"
  /\ call' = [call EXCEPT !.at = "settled",
                          !.result = TryFinallyOutcome(call.taskOutcome, outcome)]
  /\ UNCHANGED <<pollVars, queryVars, wait>>

NextLocator ==
  \/ WithElementStart
  \/ ClockAdvances
  \/ \E resolution \in {"throws", "null", "handle"} : HandleResolves(resolution)
  \/ \E outcome \in TaskOutcomes : TaskSettles(outcome)
  \/ \E outcome \in DisposeOutcomes : DisposeSettles(outcome)

SpecLocator == InitLocator /\ [][NextLocator]_vars

\* ExpectedTextMatcher on every text and every expected value of one mode:
\* an exact string, a substring, or a regular expression.
Characters == {" ", "a", "b"}
Texts == UNION {[1..n -> Characters] : n \in 0..MaxText}
ShortTexts == {t \in Texts : Len(t) < MaxText}
ExpectedValues ==
  {[string |-> {t}, matchSubstring |-> sub, normalizeWhiteSpace |-> n,
    regex |-> {}] : t \in ShortTexts, sub \in BOOLEAN, n \in BOOLEAN}
    \cup {[string |-> {}, matchSubstring |-> FALSE, normalizeWhiteSpace |-> n,
           regex |-> {[anchored |-> anchored, literal |-> t]}] :
            t \in ShortTexts \ {<<>>}, anchored \in BOOLEAN, n \in BOOLEAN}

InitMatches ==
  /\ PollInit
  /\ doc = [hidden |-> {}]
  /\ query = QueryIdle
  /\ wait = WaitIdle
  /\ call \in {[fn |-> "matches", expected |-> expected, text |-> text,
                 done |-> FALSE, result |-> FALSE] :
                  expected \in ExpectedValues, text \in Texts}

MatchesCall ==
  /\ call.fn = "matches"
  /\ ~call.done
  /\ call' = [call EXCEPT !.done = TRUE,
                          !.result = TextMatches(call.expected, call.text)]
  /\ UNCHANGED <<pollVars, queryVars, wait>>

NextMatches == MatchesCall

SpecMatches == InitMatches /\ [][NextMatches]_vars

\* selectOptions on a select, its label, another element or no element, for
\* every short list of options and of options to select.
OptionKinds == {Option("x", "X"), Option("y", "Y"), Option("x", "Y")}
OptionLists ==
  UNION {{[i \in 1..n |-> [kinds[i] EXCEPT !.selected = (i = n /\ chosen)]] :
            kinds \in [1..n -> OptionKinds], chosen \in BOOLEAN} :
         n \in 0..MaxOptions}
ToSelect ==
  {Descriptor({"x"}, {}, {}), Descriptor({"y"}, {}, {}), Descriptor({}, {"Y"}, {}),
   Descriptor({"x"}, {"X"}, {}), Descriptor({}, {}, {1}), NodeToSelect(1)}
ToSelectLists == UNION {[1..n -> ToSelect] : n \in 0..MaxOptions}
Select(options, multiple) ==
  [nodeName |-> "SELECT", options |-> options, multiple |-> multiple]
SelectNodes ==
  {MissingNode, PlainNode([nodeName |-> "DIV", options |-> <<>>, multiple |-> FALSE])}
    \cup UNION {{PlainNode(Select(options, multiple)),
                 [noFollowLabel |-> {[nodeName |-> "LABEL", options |-> <<>>,
                                      multiple |-> FALSE]},
                  followLabel |-> {Select(options, multiple)}]} :
                  options \in OptionLists, multiple \in BOOLEAN}

InitSelect ==
  /\ PollInit
  /\ doc = [hidden |-> {}]
  /\ query = QueryIdle
  /\ wait = WaitIdle
  /\ call \in {[fn |-> "selectOptions", optionsToSelect |-> optionsToSelect,
                 node |-> node, done |-> FALSE,
                 result |-> SelectOutcome("none", <<>>, <<>>, FALSE, <<>>, NoLog)] :
                  optionsToSelect \in ToSelectLists, node \in SelectNodes}

SelectOptionsCall ==
  /\ call.fn = "selectOptions"
  /\ ~call.done
  /\ call' = [call EXCEPT !.done = TRUE,
                          !.result = selectOptions(call.optionsToSelect, call.node)]
  /\ UNCHANGED <<pollVars, queryVars, wait>>

NextSelect == SelectOptionsCall

SpecSelect == InitSelect /\ [][NextSelect]_vars

\* fill of every short value into an input of each kind of type, a textarea,
\* an editable or plain element, through the element, its label, or no element.
FillCharacters == {" ", "1", "a"}
FillValues == UNION {[1..n -> FillCharacters] : n \in 0..MaxText}
FillTypes == {"text", "email", "number", "date", "time", "checkbox", "file"}
FillElements ==
  {[nodeName |-> "INPUT", type |-> type, isContentEditable |-> FALSE,
    value |-> <<"a">>] : type \in FillTypes}
    \cup {[nodeName |-> name, type |-> Undefined, isContentEditable |-> editable,
           value |-> <<"a">>] :
            name \in {"TEXTAREA", "DIV"}, editable \in BOOLEAN}
FillNodes ==
  {MissingNode}
    \cup {PlainNode(element) : element \in FillElements}
    \cup {[noFollowLabel |-> {[nodeName |-> "LABEL", type |-> Undefined,
                               isContentEditable |-> FALSE, value |-> <<>>]},
           followLabel |-> {element}] :
            element \in {control \in FillElements : control.nodeName # "DIV"}}

InitFill ==
  /\ PollInit
  /\ doc = [hidden |-> {}]
  /\ query = QueryIdle
  /\ wait = WaitIdle
  /\ call \in {[fn |-> "fill", value |-> value, node |-> node, done |-> FALSE,
                 result |-> FillOutcome("none", "", <<>>, FALSE, FALSE, <<>>, NoLog)] :
                  value \in FillValues, node \in FillNodes}

FillCall ==
  /\ call.fn = "fill"
  /\ ~call.done
  /\ call' = [call EXCEPT !.done = TRUE, !.result = fill(call.value, call.node)]
  /\ UNCHANGED <<pollVars, queryVars, wait>>

NextFill == FillCall

SpecFill == InitFill /\ [][NextFill]_vars

\* checkHitTargetAt of every node for every outcome of elementsFromPoint at
\* the point: in the document an element of the document tree or none; in the
\* shadow root an element of the shadow tree, its host, or none.
HitNodes ==
  {[element |-> element, isConnected |-> connected] :
     element \in {{}} \cup {{e} : e \in HitElements}, connected \in BOOLEAN}
ElementsFromPoint ==
  {[container \in {Document, "host"} |->
      IF container = Document THEN top ELSE inner] :
     top \in {{}, {"body"}, {"dialog"}, {"host"}},
     inner \in {{}, {"button"}, {"span"}, {"host"}}}

InitHit ==
  /\ PollInit
  /\ doc = [hidden |-> {}]
  /\ query = QueryIdle
  /\ wait = WaitIdle
  /\ call \in {[fn |-> "checkHitTargetAt", node |-> node, elements |-> elements,
                 done |-> FALSE, result |-> NoResult] :
                  node \in HitNodes, elements \in ElementsFromPoint}

CheckHitTargetAtCall ==
  /\ call.fn = "checkHitTargetAt"
  /\ ~call.done
  /\ call' = [call EXCEPT !.done = TRUE,
                          !.result = checkHitTargetAt(call.node, call.elements)]
  /\ UNCHANGED <<pollVars, queryVars, wait>>

NextHit == CheckHitTargetAtCall

SpecHit == InitHit /\ [][NextHit]_vars

(* ------------------------- parseSelector ------------------------------ *)

\* The engines the constructor registers, then the custom ones by name.
BuiltinEngines ==
  {"xpath", "xpath:light", "_react", "_vue", "text", "text:light", "id",
   "id:light", "data-testid", "data-testid:light", "data-test-id",
   "data-test-id:light", "data-test", "data-test:light", "css", "nth", "visible"}
Engines(customEngines) ==
  BuiltinEngines \cup {customEngines[i] : i \in 1..Len(customEngines)}

\* createStacklessError: no stack, or on Firefox an empty one.
createStacklessError(message, browserName) ==
  IF browserName = "firefox"
    THEN [message |-> "Error: " \o message, stack |-> {""}]
    ELSE [message |-> message, stack |-> {}]

\* A selector string is written as parts joined by >>, a part as an optional
\* capture mark, an optional engine and '=', and a body.
PartSource(written) ==
  (IF written.capture THEN "*" ELSE "")
    \o (IF written.engine = {} THEN "" ELSE The(written.engine) \o "=")
    \o written.body
RECURSIVE SelectorSource(_)
SelectorSource(written) ==
  IF Len(written) = 1 THEN PartSource(written[1])
  ELSE PartSource(written[1]) \o " >> " \o SelectorSource(Tail(written))

\* parseSelector of the selector parser: a part without an engine is a css
\* part, the marked part is the capture, and two marks are an error.
ParsedParts(written) ==
  [i \in 1..Len(written) |->
     Part(IF written[i].engine = {} THEN "css" ELSE The(written[i].engine),
          written[i].body)]
Marked(written) == {i \in 1..Len(written) : written[i].capture}
ParserResult(written) ==
  IF Cardinality(Marked(written)) > 1
    THEN Throw([message |-> "Only one of the selectors can capture using * modifier"
                              \o " while parsing selector " \o SelectorSource(written),
                stack |-> {}])
    ELSE Return([parts |-> ParsedParts(written),
                 capture |-> {i - 1 : i \in Marked(written)}])

\* if (!this._engines.has(part.name))
AlwaysRegistered(engines, name) == TRUE
Registered(engines, name) == name \in engines

\* for (const part of result.parts): the first part of an unknown engine.
RECURSIVE UnknownPart(_, _, _)
UnknownPart(parts, engines, i) ==
  IF i > Len(parts) THEN {}
  ELSE IF ~Registered(engines, parts[i].name) THEN {parts[i]}
  ELSE UnknownPart(parts, engines, i + 1)

ValidateParts(result, unknown, source, browserName) ==
  IF unknown = {} THEN Return(result)
  ELSE Throw(createStacklessError(
               "Unknown engine \"" \o The(unknown).name
                 \o "\" while parsing selector " \o source, browserName))

ValidateResult(parsed, engines, source, browserName) ==
  IF parsed.kind = "throw" THEN parsed
  ELSE ValidateParts(parsed.value, UnknownPart(parsed.value.parts, engines, 1),
                     source, browserName)

\* InjectedScript.parseSelector(selector)
parseSelector(written, customEngines, browserName) ==
  ValidateResult(ParserResult(written), Engines(customEngines),
                 SelectorSource(written), browserName)

\* parseSelector of every short selector, in every browser, with no custom
\* engine, with one, and with one that replaces a built-in engine.
WrittenParts ==
  {[engine |-> engine, body |-> "a", capture |-> capture] :
     engine \in {{}, {"css"}, {"tag"}, {"bogus"}}, capture \in BOOLEAN}
WrittenSelectors == UNION {[1..n -> WrittenParts] : n \in 1..MaxParts}
CustomEngines == {<<>>, <<"tag">>, <<"tag", "css">>}
BrowserNames == {"chromium", "firefox"}

InitParse ==
  /\ PollInit
  /\ doc = [hidden |-> {}]
  /\ query = QueryIdle
  /\ wait = WaitIdle
  /\ call \in {[fn |-> "parseSelector", selector |-> written,
                 customEngines |-> custom, browserName |-> browser,
                 done |-> FALSE, result |-> NoResult] :
                  written \in WrittenSelectors, custom \in CustomEngines,
                  browser \in BrowserNames}

ParseSelectorCall ==
  /\ call.fn = "parseSelector"
  /\ ~call.done
  /\ call' = [call EXCEPT !.done = TRUE,
                          !.result = parseSelector(call.selector, call.customEngines,
                                                   call.browserName)]
  /\ UNCHANGED <<pollVars, queryVars, wait>>

NextParse == ParseSelectorCall

SpecParse == InitParse /\ [][NextParse]_vars

\* The stability scenario: a wait for 'stable' alone with stableRafCount 2 on
\* an element that stays in the page and shows RectA or RectB at each tick,
\* the ticks at least FrameThreshold ms apart.
ScenarioNodes ==
  {PlainNode([WaitElement EXCEPT !.clientRect = r]) : r \in {RectA, RectB}}
ScenarioDeltas == {dt \in FrameDeltas \cup {FrameThreshold} : dt >= FrameThreshold}

InitStable ==
  /\ PollInit
  /\ doc = [hidden |-> {}]
  /\ query = QueryIdle
  /\ call = NoPureCall
  /\ wait = Wait(<<"stable">>, FALSE, 2)

NextStable ==
  \/ \E node \in ScenarioNodes, callback \in CallbackResults : WaitRun(node, callback)
  \/ \E node \in ScenarioNodes, dt \in ScenarioDeltas, callback \in CallbackResults :
       WaitTick(node, dt, callback, MaxScenarioTicks)
  \/ Finally

SpecStable == InitStable /\ [][NextStable]_vars

(* ====================================================================== *)
(*                    Properties of the poll runtime                      *)
(* ====================================================================== *)

Pending(i) == takePromises[i].state = "pending"

(* C1: once cancel() has been called while no predicate invocation is in   *)
(* progress, no later step settles the run() promise, invokes the          *)
(* predicate or calls scheduleNext.                                        *)
C1_CancelledPollStaysSilent ==
  [][aborted => /\ resultState' = resultState
                /\ resultValue' = resultValue
                /\ predicateCalls' = predicateCalls
                /\ scheduleCalls' = scheduleCalls]_vars

\* A poll cancelled between two ticks whose scheduled tick has since run and
\* returned at once: the promise is still pending and nothing is scheduled.
C1_Witness ==
  /\ aborted /\ started /\ pc = "idle"
  /\ scheduleCalls >= 1 /\ ~scheduled
  /\ resultState = "pending"

\* The entries appended before the last progress call.
EmittedBefore == SubSeq(emitted, 1, Len(emitted) - lastCall.appended)
MessagesOf(entries) == SelectSeq(entries, LAMBDA e : e.kind = "message")
ResultsOf(entries) == SelectSeq(entries, LAMBDA e : e.kind = "intermediateResult")
LastValue(entries) == entries[Len(entries)].value

\* What the last call had to append: nothing when the most recent value of
\* its kind equals the argument, one entry otherwise; `initial` is what counts
\* as most recent while nothing of that kind was appended (None: nothing does).
None == "none"
ExpectedAppends(previous, initial) ==
  LET recent == IF previous = <<>> THEN initial ELSE LastValue(previous)
  IN IF recent # None /\ recent = lastCall.arg THEN 0 ELSE 1

AppendedEntryIs(entry) ==
  lastCall.appended = 1 => emitted[Len(emitted)] = entry

(* C9 as stated: logRepeating(m) appends nothing when the most recently    *)
(* appended message equals m and exactly one entry otherwise;              *)
(* setIntermediateResult(v) appends nothing when the most recently         *)
(* published result equals v and exactly one entry otherwise.              *)
C9_AsStated ==
  /\ lastCall.op = "logRepeating" =>
       lastCall.appended = ExpectedAppends(MessagesOf(EmittedBefore), None)
  /\ lastCall.op = "setIntermediateResult" =>
       lastCall.appended = ExpectedAppends(ResultsOf(EmittedBefore), None)

(* C9 amended: the same, where the empty string counts as the most recent  *)
(* message while no message was appended, and undefined as the most recent *)
(* intermediate result while none was published.                           *)
C9_LogMonotonicity ==
  /\ lastCall.op = "logRepeating" =>
       /\ lastCall.appended = ExpectedAppends(MessagesOf(EmittedBefore), "")
       /\ AppendedEntryIs(MessageEntry(lastCall.arg))
  /\ lastCall.op = "setIntermediateResult" =>
       /\ lastCall.appended =
            ExpectedAppends(ResultsOf(EmittedBefore), Undefined)
       /\ AppendedEntryIs(IntermediateResultEntry(lastCall.arg))

\* logRepeating suppressed a message that was appended before, with an
\* intermediate result appended in between.
C9_Witness ==
  /\ lastCall.op = "logRepeating"
  /\ lastCall.appended = 0
  /\ Len(emitted) >= 2
  /\ emitted[Len(emitted)].kind = "intermediateResult"
  /\ MessagesOf(emitted) # <<>>
  /\ LastValue(MessagesOf(emitted)) = lastCall.arg

C11_TakeAfterFinishResolvesAtOnce ==
  \A i \in 1..Len(takePromises) :
    takePromises[i].finished =>
      /\ takePromises[i].state = "resolved"
      /\ takePromises[i].logs = takePromises[i].buffered

\* Two calls after the task finished: the first takes the entries that were
\* still buffered, the second resolves with the empty list.
C11_Witness ==
  /\ Len(takePromises) = 2
  /\ takePromises[1].finished /\ takePromises[1].buffered # <<>>
  /\ takePromises[1].logs = takePromises[1].buffered
  /\ takePromises[2].finished /\ takePromises[2].buffered = <<>>
  /\ takePromises[2].state = "resolved"

\* The entries the takeNextLogs promises up to the n-th were resolved with,
\* in the order of the calls.
RECURSIVE DeliveredUpTo(_)
DeliveredUpTo(n) ==
  IF n = 0 THEN <<>>
  ELSE DeliveredUpTo(n - 1)
         \o (IF takePromises[n].state = "resolved" THEN takePromises[n].logs ELSE <<>>)

\* C38: for any interleaving of log, logRepeating and setIntermediateResult
\* emissions, takeNextLogs calls (also while an earlier one is pending) and
\* task completion: the entries appended so far are exactly the entries the
\* resolved takeNextLogs promises hold followed by those in the buffer, each
\* once and in emission order; and a promise resolved with an empty list was
\* resolved when the task had finished.
C38_EveryEntryDeliveredOnce ==
  /\ emitted = DeliveredUpTo(Len(takePromises)) \o unsentLog
  /\ \A i \in 1..Len(takePromises) :
       (takePromises[i].state = "resolved" /\ takePromises[i].logs = <<>>)
         => taskFinished

\* A takeNextLogs call was made while an earlier one was pending; the later
\* one got an entry, and another entry is in the buffer.
C38_Witness ==
  /\ Len(takePromises) = 2
  /\ takePromises[1].state = "pending"
  /\ takePromises[2].state = "resolved" /\ Len(takePromises[2].logs) = 1
  /\ Len(unsentLog) = 1
  /\ Len(emitted) = 2

(* ====================================================================== *)
(*                   Properties of the query evaluator                    *)
(* ====================================================================== *)

Range(seq) == {seq[i] : i \in 1..Len(seq)}
Done == query.status = "done"
Returned == query.outcome.kind \in {"value", "list"}
ReturnedElements == query.outcome.value \cup Range(query.outcome.list)
HasVisiblePart(parts) == \E i \in 1..Len(parts) : parts[i].name = "visible"
HasNthPart(parts) == \E i \in 1..Len(parts) : parts[i].name = "nth"

\* The distinct members of a list in the order of their first occurrence.
FirstIndex(seq, x) == CHOOSE i \in 1..Len(seq) : seq[i] = x /\ \A j \in 1..(i - 1) : seq[j] # x
DistinctInOrder(seq) ==
  LET distinct == Range(seq)
      rank(x) == Cardinality({y \in distinct : FirstIndex(seq, y) <= FirstIndex(seq, x)})
  IN [r \in 1..Cardinality(distinct) |-> CHOOSE x \in distinct : rank(x) = r]

\* What an nth part is specified to keep of a list of elements.
ExpectedNth(elements, body) ==
  IF body = "-1"
    THEN IF elements = <<>> THEN <<>> ELSE <<elements[Len(elements)]>>
    ELSE IF Len(DistinctInOrder(elements)) < ToNumber(body) + 1 THEN <<>>
         ELSE <<DistinctInOrder(elements)[ToNumber(body) + 1]>>

\* The elements one part is specified to produce from a list of elements.
RECURSIVE Concat(_, _, _)
Concat(elements, body, i) ==
  IF i > Len(elements) THEN <<>>
  ELSE CssQueryAll(elements[i], body) \o Concat(elements, body, i + 1)

ExpectedPart(elements, part) ==
  IF part.name = "nth" THEN ExpectedNth(elements, part.body)
  ELSE IF part.name = "visible"
    THEN SelectSeq(elements, LAMBDA e : ToBoolean(part.body) = isVisible(e))
  ELSE Concat(elements, part.body, 1)

\* The elements the first n parts of a selector are specified to match.
RECURSIVE ExpectedElements(_, _, _)
ExpectedElements(parts, root, n) ==
  IF n = 0 THEN <<root>>
  ELSE ExpectedPart(ExpectedElements(parts, root, n - 1), parts[n])

\* The match list the evaluator itself reaches after the first n parts.
MatchesAfter(n) ==
  Evaluate([parts |-> SubSeq(query.selector.parts, 1, n), capture |-> {}],
           query.root).matches

(* C2 as stated: a strict querySelector raises the strict mode violation   *)
(* if and only if the final matches hold more than one distinct element.   *)
C2_AsStated ==
  (Done /\ query.op = "querySelector" /\ query.strict
     /\ query.outcome.error # CaptureNthError) =>
    (query.outcome.error = StrictViolation
       <=> Cardinality(Range(ElementsOf(query.outcome.matches))) > 1)

(* C3 as stated (for selectors without a visible part): with the capture   *)
(* mark on part k, every returned element is one that part k matched.      *)
C3_AsStated ==
  (Done /\ Returned /\ ~HasVisiblePart(query.selector.parts)) =>
    \A k \in query.selector.capture :
      ReturnedElements \subseteq
        Range(ExpectedElements(query.selector.parts, query.root, k + 1))

(* C4 as stated (for selectors of css and visible parts without capture):  *)
(* the parts after a visible part are applied to the matches that passed   *)
(* the visibility filter, so the result is what all parts in order give.   *)
C4_AsStated ==
  (/\ Done /\ query.outcome.kind = "list"
   /\ query.selector.capture = {}
   /\ ~HasNthPart(query.selector.parts)
   /\ \E i \in 1..(Len(query.selector.parts) - 1) :
        query.selector.parts[i].name = "visible") =>
    query.outcome.list =
      DistinctInOrder(ExpectedElements(query.selector.parts, query.root,
                                       Len(query.selector.parts)))

(* C5 as stated (for a selector ending in the nth part, no visible part    *)
(* before it): an nth part with body k >= 0 and no capture keeps no match  *)
(* when the current list has fewer than k+1 distinct elements, and         *)
(* otherwise exactly the (k+1)-th distinct element in first-encounter      *)
(* order.                                                                  *)
C5_AsStated ==
  LET parts == query.selector.parts
      n == Len(parts)
  IN (/\ Done /\ query.outcome.error = ""
      /\ query.selector.capture = {}
      /\ parts[n].name = "nth" /\ parts[n].body # "-1"
      /\ ~HasVisiblePart(parts)) =>
       ElementsOf(query.outcome.matches) =
         ExpectedNth(ElementsOf(MatchesAfter(n - 1)), parts[n].body)

(* C6 as stated (for selectors without a visible part): a capture mark on  *)
(* a part before an nth part makes the call raise an error, for every nth  *)
(* body.                                                                   *)
C6_AsStated ==
  (/\ Done
   /\ ~HasVisiblePart(query.selector.parts)
   /\ \E k \in query.selector.capture :
        \E i \in (k + 2)..Len(query.selector.parts) :
          query.selector.parts[i].name = "nth") =>
    query.outcome.kind = "error"

\* The projections (capture if present, else element) of the final matches.
FinalProjections ==
  [i \in 1..Len(query.outcome.matches) |->
     IF query.outcome.matches[i].capture = {}
       THEN query.outcome.matches[i].element
       ELSE CHOOSE c \in query.outcome.matches[i].capture : TRUE]

(* C7: querySelectorAll returns a list without repeated elements, whose    *)
(* members are the projections of the final matches, ordered by the first  *)
(* occurrence of each in the final match list.                             *)
C7_DedupStability ==
  (Done /\ query.outcome.kind = "list") =>
    LET list == query.outcome.list IN
    /\ \A i, j \in 1..Len(list) : i # j => list[i] # list[j]
    /\ Range(list) = Range(FinalProjections)
    /\ \A i, j \in 1..Len(list) :
         i < j => FirstIndex(FinalProjections, list[i])
                    < FirstIndex(FinalProjections, list[j])

\* A querySelectorAll call whose final matches repeat a projection with
\* another one in between.
C7_Witness ==
  /\ Done /\ query.outcome.kind = "list"
  /\ Len(query.outcome.list) >= 2
  /\ \E i, j, k \in 1..Len(FinalProjections) :
       /\ i < j /\ j < k
       /\ FinalProjections[i] = FinalProjections[k]
       /\ FinalProjections[i] # FinalProjections[j]

(* C8: within one call the engine is invoked at most once for every pair   *)
(* (root element, part index); every call starts from an empty cache, so a *)
(* call whose first part is an engine part invokes it on the root.         *)
C8_EngineInvokedOnce ==
  Done =>
    LET calls == query.outcome.calls IN
    /\ \A i, j \in 1..Len(calls) : i # j => calls[i] # calls[j]
    /\ query.selector.parts[1].name = "css" => calls[1] = <<query.root, 0>>

\* A call in which an engine part met the same root element twice and the
\* engine returned an empty list for it.
C8_Witness ==
  /\ Done
  /\ \E n \in 1..(Len(query.selector.parts) - 1) :
       /\ query.selector.parts[n + 1].name = "css"
       /\ \E i, j \in 1..Len(MatchesAfter(n)) :
            /\ i # j
            /\ MatchesAfter(n)[i].element = MatchesAfter(n)[j].element
            /\ _queryEngineAll(query.selector.parts[n + 1],
                               MatchesAfter(n)[i].element) = <<>>
            /\ <<MatchesAfter(n)[i].element, n>> \in Range(query.outcome.calls)

(* ====================================================================== *)
(*                   Properties of the readiness loop                     *)
(* ====================================================================== *)

\* The number of measurements taken so far, and the rect of the i-th.
Measurements == Len(wait.measured)
MeasuredRect(i) == wait.measured[i].rect

(* C12: with force unset, a measurement whose rect differs from the one    *)
(* measured before it leaves samePositionCounter at 0, and a 'stable'      *)
(* entry passes only at a measurement that has the same rect as each of    *)
(* the stableRafCount measurements immediately before it.                  *)
C12_StableNeedsSameRectRun ==
  ~wait.force =>
    /\ (Measurements >= 2 /\ MeasuredRect(Measurements) # MeasuredRect(Measurements - 1))
          => wait.w.samePositionCounter = 0
    /\ \A n \in wait.passes :
         /\ n > wait.stableRafCount
         /\ \A j \in (n - wait.stableRafCount)..n : MeasuredRect(j) = MeasuredRect(n)

\* The rect changed between two measurements and a later one passed.
C12_Witness ==
  /\ ~wait.force
  /\ \E n \in wait.passes :
       \E j \in 1..(n - 1) : MeasuredRect(j) # MeasuredRect(j + 1)

\* In the scenario every animation-frame tick takes a measurement, so the
\* i-th measurement is what the i-th animation-frame tick after run()
\* observed, and that tick is predicate invocation i + 1.
\* The element showed RectA at the first n animation-frame ticks and RectB
\* at every later one.
ShowedAThenB(n) ==
  \A i \in 1..Measurements :
    MeasuredRect(i) = IF i <= n THEN RectOf(RectA) ELSE RectOf(RectB)
\* Every tick that invoked the callback observed RectB.
InvokedOnlyOnB ==
  \A t \in wait.invokedAt : t >= 2 /\ MeasuredRect(t - 1) = RectOf(RectB)

(* C13 as stated: with RectA at the first three animation-frame ticks and  *)
(* RectB later, no tick observing RectA invokes the callback, and the      *)
(* third tick observing RectB (animation-frame tick 6) does.               *)
C13_AsStated ==
  ShowedAThenB(3) =>
    /\ InvokedOnlyOnB
    /\ predicateCalls >= 7 => 7 \in wait.invokedAt

(* C13: with RectA at the first two animation-frame ticks after run() and  *)
(* RectB at every later one, no tick observing RectA invokes the callback, *)
(* and the callback is first invoked at the third tick observing RectB,    *)
(* the second consecutive frame repeating RectB (animation-frame tick 5).  *)
C13_StableAfterTheChange ==
  ShowedAThenB(2) =>
    /\ InvokedOnlyOnB
    /\ \A t \in wait.invokedAt : t >= 6
    /\ predicateCalls >= 6 => 6 \in wait.invokedAt

\* The callback has just been invoked at animation-frame tick 5, after two
\* ticks observing RectA and three observing RectB.
C13_Witness ==
  /\ ShowedAThenB(2)
  /\ Measurements = 5
  /\ predicateCalls = 6
  /\ wait.lastTick.invoked

\* What the entries of the last tick evaluated to.
LastEvals == {wait.lastTick.evals[i].eval : i \in 1..Len(wait.lastTick.evals)}
\* An entry held: a state evaluated to true, a 'stable' entry passed.
Held == {Bool(TRUE), "stable"}
\* An entry did not hold yet: false, or a 'stable' entry that was skipped,
\* dropped or measured a rect that is not stable.
NotYet == {Bool(FALSE), "skipped", "dropped", "unstable"}
Ticked == wait.lastTick.kind # "none"
AllHeld ==
  /\ Len(wait.lastTick.evals) = Len(wait.states)
  /\ LastEvals \subseteq Held

(* C14 as stated: with force unset the callback is invoked only in a tick  *)
(* where every requested entry held; in a tick where some entry did not    *)
(* hold the callback is not invoked and the poll continues; the value that *)
(* fulfils the poll is what the callback returned in its last invocation.  *)
C14_AsStated ==
  (~wait.force /\ Ticked) =>
    /\ wait.lastTick.invoked => AllHeld
    /\ ~AllHeld => (~wait.lastTick.invoked /\ scheduled /\ resultState = "pending")
    /\ resultState = "fulfilled" =>
         (wait.lastTick.invoked /\ resultValue = wait.lastTick.returned)

(* C14: with force unset the callback is invoked only in a tick where      *)
(* every requested entry held. In a tick where an entry is false or not    *)
(* yet stable the callback is not invoked and the poll continues; where an *)
(* entry finds the element missing or not connected the callback is not    *)
(* invoked and the poll is fulfilled with 'error:notconnected'; where an   *)
(* entry throws the callback is not invoked and the poll is rejected.      *)
(* Otherwise the value that fulfils the poll is what the callback returned *)
(* in its last invocation, and the poll ticks again when that is the       *)
(* tick's sentinel.                                                        *)
C14_CallbackGatedOnStates ==
  (~wait.force /\ Ticked) =>
    /\ wait.lastTick.invoked => AllHeld
    /\ LastEvals \cap NotYet # {} =>
         (~wait.lastTick.invoked /\ scheduled /\ resultState = "pending")
    /\ "error:notconnected" \in LastEvals =>
         /\ ~wait.lastTick.invoked
         /\ resultState = "fulfilled" /\ resultValue = "error:notconnected"
    /\ "throw" \in LastEvals =>
         (~wait.lastTick.invoked /\ resultState = "rejected")
    /\ (resultState = "fulfilled" /\ "error:notconnected" \notin LastEvals) =>
         (wait.lastTick.invoked /\ resultValue = wait.lastTick.returned)
    /\ (wait.lastTick.invoked /\ wait.lastTick.returned = Continue) =>
         (scheduled /\ resultState = "pending")

\* A wait for two states whose callback was invoked after a tick that was
\* not yet stable, and whose return value fulfilled the poll.
C14_Witness ==
  /\ ~wait.force
  /\ wait.states = <<"visible", "stable">>
  /\ Measurements >= 2
  /\ wait.lastTick.invoked /\ AllHeld
  /\ resultState = "fulfilled" /\ resultValue = "done"

\* What the 'stable' entry of the tick just made evaluated to, if the loop
\* came to it.
StableEvals(tick) ==
  {tick.evals[i].eval : i \in {j \in 1..Len(tick.evals) : tick.evals[j].state = "stable"}}
\* The tick came to the 'stable' entry after the synchronous call, on an
\* element that was there.
CameToMeasure(tick) == StableEvals(tick) \cap {"dropped", "stable", "unstable"} # {}
\* A predicate invocation of a wait that is not forced.
WaitTicked == predicateCalls' = predicateCalls + 1 /\ ~wait.force
\* The time of the last measurement.
LastMeasuredTime == wait.measured[Len(wait.measured)].time
C31_Step ==
  WaitTicked =>
    /\ (/\ wait.stableRafCount > 1
        /\ CameToMeasure(wait'.lastTick)
        /\ wait.measured # <<>>
        /\ wait'.now - LastMeasuredTime < 15) =>
          /\ wait'.lastTick.kind = "continue"
          /\ ~wait'.lastTick.invoked
          /\ wait'.measured = wait.measured
          /\ wait'.w.lastRect = wait.w.lastRect
          /\ wait'.w.samePositionCounter = wait.w.samePositionCounter
          /\ wait'.w.lastTime = wait.w.lastTime
    /\ wait.stableRafCount > 1 =>
         \A i \in 1..(Len(wait'.measured) - 1) :
           wait'.measured[i + 1].time - wait'.measured[i].time >= 15
    /\ (wait.stableRafCount <= 1 /\ CameToMeasure(wait'.lastTick)) =>
         /\ "dropped" \notin StableEvals(wait'.lastTick)
         /\ wait'.measured = Append(wait.measured, wait'.measured[Len(wait'.measured)])
         /\ wait'.measured[Len(wait'.measured)].time = wait'.now
         /\ wait'.w.lastTime = wait'.now

\* C31: in the stability branch with stableRafCount > 1, a tick that comes
\* less than 15 ms after the last measured tick continues polling and leaves
\* lastRect, samePositionCounter and lastTime unchanged, so that any two
\* consecutive measurements are at least 15 ms apart; with stableRafCount <= 1
\* no tick is dropped for being short: every tick that comes to measure does.
C31_ShortFramesDropped == [][C31_Step]_vars

\* With stableRafCount 2, a tick 5 ms after a measurement was dropped.
C31_Witness ==
  /\ ~wait.force
  /\ wait.stableRafCount = 2
  /\ wait.measured # <<>>
  /\ wait.now - LastMeasuredTime = 5
  /\ "dropped" \in StableEvals(wait.lastTick)

(* C37 as stated: with force unset and 'stable' among the states, on a node *)
(* whose retargeted element is not connected when the 'stable' entry is    *)
(* evaluated, the callback is not invoked and what the poll yields is      *)
(* 'error:notconnected', also when 'stable' is the only state. Here no     *)
(* tick sees the node connected, and a tick that polls on is let pass.     *)
C37_AsStated ==
  (~wait.force /\ StableEvals(wait.lastTick) # {}) =>
    /\ wait.invokedAt = {}
    /\ wait.lastTick.kind # "continue" =>
         wait.lastTick.kind = "return" /\ wait.lastTick.value = "error:notconnected"

(* ====================================================================== *)
(*                      Properties of elementState                        *)
(* ====================================================================== *)

\* The element elementState looks at: visible and hidden are asked of the
\* node's own element, the other states of the control of a label.
Retargeted ==
  IF call.state \in {"visible", "hidden"} THEN call.node.noFollowLabel
  ELSE call.node.followLabel
MissingOrNotConnected ==
  \A element \in Retargeted : ~element.isConnected

(* C15: for a node whose retargeted element is missing or not connected,   *)
(* elementState returns true for 'hidden' and 'error:notconnected' for     *)
(* every other state, without throwing, whatever the tag and attributes.   *)
C15_DetachedElementStates ==
  (call.done /\ MissingOrNotConnected) =>
    /\ call.result.kind = "return"
    /\ call.result.value = IF call.state = "hidden" THEN Bool(TRUE)
                            ELSE "error:notconnected"

\* 'checked' asked of a div that is not connected: no throw for the tag.
C15_Witness ==
  /\ call.done /\ call.state = "checked"
  /\ \E element \in Retargeted :
       ~element.isConnected /\ element.nodeName = "DIV" /\ element.role = Null
  /\ call.result = Return("error:notconnected")

\* A connected element that is no checkbox and no radio button, by role or
\* as an input.
NotACheckbox(element) ==
  /\ element.isConnected
  /\ element.role \notin {"checkbox", "radio"}
  /\ ~(element.nodeName = "INPUT" /\ element.type \in {"checkbox", "radio"})

(* C16 as stated: 'checked' asked of a connected element that is neither a *)
(* checkbox nor a radio button returns the string 'error:notcheckbox' as a *)
(* value and throws nothing.                                               *)
C16_AsStated ==
  (/\ call.done /\ call.state = "checked"
   /\ \E element \in Retargeted : NotACheckbox(element))
    => call.result = Return("error:notcheckbox")

\* The call was made on a node whose element, for the state asked, is
\* connected.
StateOfConnected ==
  /\ call.fn = "elementState" /\ call.done
  /\ \E element \in Retargeted : element.isConnected
\* What elementState answers for another state of the same node.
AnswerFor(state) == elementState(call.node, state)
Negation(answer) == Return(Bool(answer.value = Bool(FALSE)))
\* An INPUT, TEXTAREA or SELECT carrying a readonly attribute.
ReadonlyControl(element) ==
  \/ element.nodeName = "INPUT" /\ element.readonly
  \/ element.nodeName = "TEXTAREA" /\ element.readonly
  \/ element.nodeName = "SELECT" /\ element.readonly

(* C32: for every connected element: elementState 'enabled' is the         *)
(* negation of 'disabled', 'hidden' is the negation of 'visible', and      *)
(* 'editable' is true exactly when 'enabled' is true and the element is no *)
(* INPUT, TEXTAREA or SELECT carrying a readonly attribute, so that        *)
(* editable implies enabled.                                               *)
C32_StatesAreRelated ==
  StateOfConnected =>
    /\ call.state = "enabled" =>
         /\ IsBoolean(AnswerFor("disabled").value)
         /\ call.result = Negation(AnswerFor("disabled"))
    /\ call.state = "disabled" => call.result = Negation(AnswerFor("enabled"))
    /\ call.state = "hidden" =>
         /\ IsBoolean(AnswerFor("visible").value)
         /\ call.result = Negation(AnswerFor("visible"))
    /\ call.state = "visible" => call.result = Negation(AnswerFor("hidden"))
    /\ call.state = "editable" =>
         /\ call.result.kind = "return" /\ IsBoolean(call.result.value)
         /\ (call.result.value = Bool(TRUE)) <=>
              /\ AnswerFor("enabled") = Return(Bool(TRUE))
              /\ \A element \in Retargeted : ~ReadonlyControl(element)
         /\ call.result.value = Bool(TRUE) => AnswerFor("enabled") = Return(Bool(TRUE))

\* 'editable' asked of an enabled input that carries readonly: false.
C32_Witness ==
  /\ StateOfConnected
  /\ call.state = "editable"
  /\ \E element \in Retargeted :
       element.nodeName = "INPUT" /\ element.readonly /\ ~element.disabled
  /\ AnswerFor("enabled") = Return(Bool(TRUE))
  /\ call.result = Return(Bool(FALSE))

(* ====================================================================== *)
(*                       Properties of deepEquals                         *)
(* ====================================================================== *)

IsPrimitive(a) == ~IsObject(a)

(* C19 as stated: deepEquals returns false for two different primitives    *)
(* neither of which is NaN, and for two arrays it returns false exactly    *)
(* when their lengths differ or some index holds different values.         *)
C19_AsStated ==
  call.done =>
    /\ (/\ IsPrimitive(call.a) /\ IsPrimitive(call.b) /\ call.a # call.b
        /\ call.a # JsNaN /\ call.b # JsNaN) => ~call.result
    /\ (call.a.t = "array" /\ call.b.t = "array") =>
         (~call.result <=> call.a.items # call.b.items)

(* C20: deepEquals(x, x) is true for every value x, deepEquals(NaN, NaN)   *)
(* is true, and deepEquals(a, b) = deepEquals(b, a) for every pair.        *)
C20_DeepEqualsLaws ==
  call.done =>
    /\ (call.same \/ call.a = call.b) => call.result
    /\ (call.a = JsNaN /\ call.b = JsNaN) => call.result
    /\ call.result = deepEquals(call.b, call.a, call.same)

\* An array holding NaN compared with itself.
C20_Witness ==
  /\ call.done /\ call.result
  /\ call.same /\ call.a = Arr(<<JsNaN, Num("1")>>)

(* ====================================================================== *)
(*                         Properties of expect                           *)
(* ====================================================================== *)

\* The text a single-text expression reads of the receiver.
ReceivedText == TextValue(call.expression, call.element, call.options)

\* The expression has a truth value on the receiver: the element state is a
\* boolean, the text and the expected text are there.
HasTruthValue ==
  CASE call.expression \in BooleanExpressions ->
         LET state == BooleanValue(call.expression, call.element)
         IN state.kind = "return" /\ IsBoolean(state.value)
    [] call.expression \in {"to.have.count", "to.have.property"} -> TRUE
    [] call.expression \in TextExpressions ->
         /\ ReceivedText.kind = "return" /\ ReceivedText.value # {}
         /\ call.options.expectedText \notin {{}, {<<>>}}
    [] OTHER -> FALSE

\* The receiver satisfies the expression.
Satisfies ==
  CASE call.expression \in BooleanExpressions ->
         BooleanValue(call.expression, call.element).value = Bool(TRUE)
    [] call.expression = "to.have.count" ->
         Len(call.elements) = call.options.expectedNumber
    [] call.expression = "to.have.property" ->
         deepEquals(call.element.property, call.options.expectedValue, FALSE)
    [] OTHER ->
         TextMatches(The(call.options.expectedText)[1], The(ReceivedText.value))

ReceivedList == ArrayValue(call.expression, call.elements, call.options)
ListMatches ==
  LET expected == The(call.options.expectedText)
  IN /\ Len(ReceivedList) = Len(expected)
     /\ \A i \in 1..Len(expected) : TextMatches(expected[i], ReceivedList[i])

(* C18 as stated: for the array expressions expect keeps polling exactly   *)
(* when (the lists match) equals isNot and returns a result exactly when   *)
(* it differs from isNot.                                                  *)
C18_AsStated ==
  (/\ call.done /\ call.fn = "expect"
   /\ call.expression \in ArrayExpressions /\ call.options.expectedText # {}) =>
    /\ call.result.kind = "continue" <=> (ListMatches = call.options.isNot)
    /\ call.result.kind = "result" <=> (ListMatches # call.options.isNot)

\* The expression is a list expression with an expected list.
IsListCall == call.expression \in ArrayExpressions /\ call.options.expectedText # {}

\* The receiver satisfies the expression, lists included.
SatisfiesExpression == IF IsListCall THEN ListMatches ELSE Satisfies

\* The value the expression reads of the receiver.
ReceivedValue ==
  CASE call.expression \in BooleanExpressions ->
         BooleanValue(call.expression, call.element).value
    [] call.expression = "to.have.count" -> Len(call.elements)
    [] call.expression = "to.have.property" -> call.element.property
    [] call.expression \in TextExpressions -> The(ReceivedText.value)
    [] OTHER -> ReceivedList

ExpectReturnsAsStated ==
  /\ call.result.kind = "result" =>
       /\ SatisfiesExpression # call.options.isNot
       /\ call.result.pass = {~call.options.isNot}
  /\ SatisfiesExpression = call.options.isNot =>
       /\ call.result.kind = "continue"
       /\ call.result.published = <<ReceivedValue>>
       /\ call.result.pass = {}

(* C28 as stated: expect returns a result object only in a call where       *)
(* (the receiver satisfies the expression) differs from isNot, and the     *)
(* returned pass is then the negation of isNot; in every call where (the   *)
(* receiver satisfies the expression) equals isNot it publishes the        *)
(* received value through setIntermediateResult and returns the            *)
(* continue-polling value, with no pass value.                             *)
C28_AsStated ==
  (call.done /\ call.fn = "expect" /\ (HasTruthValue \/ IsListCall)) =>
    ExpectReturnsAsStated

\* The intermediate results appended to the log of the poll, in order.
PublishedEntries == ResultsOf(emitted)

(* C29 as stated: setIntermediateResult suppresses a value that is          *)
(* unchanged by content, also when it is a list: while expect on           *)
(* 'to.have.text.array' or 'to.have.class.array' is polled over several    *)
(* ticks and the received list keeps the same contents, at most one        *)
(* intermediate-result entry is appended, so no two entries in a row hold  *)
(* the same list.                                                          *)
C29_AsStated ==
  (call.fn = "expect" /\ call.expression \in ArrayExpressions) =>
    \A i \in 1..(Len(PublishedEntries) - 1) :
      PublishedEntries[i].value # PublishedEntries[i + 1].value

(* ====================================================================== *)
(*                  Properties of ExpectedTextMatcher                     *)
(* ====================================================================== *)

\* The characters of s that stay when s is trimmed and each run of white
\* space is collapsed: the others, and a white space that follows another
\* character and is followed, somewhere, by another one.
KeptIn(s) ==
  {i \in 1..Len(s) :
     \/ ~IsWhiteSpace(s[i])
     \/ /\ i > 1 /\ ~IsWhiteSpace(s[i - 1])
        /\ \E j \in (i + 1)..Len(s) : ~IsWhiteSpace(s[j])}
\* N(s): s trimmed, each run of white space one space.
Normal(s) ==
  [k \in 1..Cardinality(KeptIn(s)) |->
     LET i == CHOOSE i \in KeptIn(s) : Cardinality({j \in KeptIn(s) : j <= i}) = k
     IN IF IsWhiteSpace(s[i]) THEN " " ELSE s[i]]
\* text contains sub
Contains(text, sub) ==
  \E at \in 0..Len(text) :
    /\ at + Len(sub) <= Len(text)
    /\ \A k \in 1..Len(sub) : text[at + k] = sub[k]

\* What matches(text) is to return in each mode.
MatchesAsDescribed(expected, text) ==
  IF expected.regex # {}
    THEN RegExpTest(The(expected.regex), text)
  ELSE IF expected.matchSubstring
    THEN IF expected.normalizeWhiteSpace
           THEN Contains(Normal(text), Normal(The(expected.string)))
           ELSE Contains(text, The(expected.string))
  ELSE IF expected.normalizeWhiteSpace
    THEN Normal(text) = Normal(The(expected.string))
    ELSE text = The(expected.string)

\* C21: in exact-string mode matches(text) is N(text) = N(expected) with
\* normalizeWhiteSpace and text = expected without; in substring mode it is
\* 'N(text) contains N(expected)' with it and 'text contains expected'
\* without; in regex mode the regex is tested against the unmodified text
\* either way (N trims and collapses each run of white space to one space).
C21_MatcherModes ==
  (call.fn = "matches" /\ call.done)
    => call.result = MatchesAsDescribed(call.expected, call.text)

\* A text with a run of white space inside matched, by normalization alone,
\* against the string with one space.
C21_Witness ==
  /\ call.fn = "matches" /\ call.done
  /\ call.text = <<"a", " ", " ", "b">>
  /\ call.expected.string = {<<"a", " ", "b">>}
  /\ ~call.expected.matchSubstring
  /\ call.expected.normalizeWhiteSpace
  /\ call.result
  /\ call.text # The(call.expected.string)

(* ====================================================================== *)
(*                      Properties of selectOptions                       *)
(* ====================================================================== *)

\* A selectOptions call on a select element has returned.
SelectCalled ==
  /\ call.fn = "selectOptions" /\ call.done
  /\ call.node.followLabel # {}
  /\ \A element \in call.node.followLabel : element.nodeName = "SELECT"
TheSelect == CHOOSE element \in call.node.followLabel : TRUE
Requested == call.optionsToSelect
\* The option at position i (1 is the first) is what the request d describes.
DescribedBy(d, i) ==
  IF d.node # {} THEN i \in d.node
  ELSE /\ d.value \subseteq {TheSelect.options[i].value}
       /\ d.label \subseteq {TheSelect.options[i].label}
       /\ d.index \subseteq {i - 1}
Positions == 1..Len(TheSelect.options)
MatchesNoOption(d) == \A i \in Positions : ~DescribedBy(d, i)
SomeUnmatched == \E k \in 1..Len(Requested) : MatchesNoOption(Requested[k])
AllUnmatched == \A k \in 1..Len(Requested) : MatchesNoOption(Requested[k])
NothingChanged ==
  /\ call.result.options = TheSelect.options
  /\ ~call.result.cleared
  /\ call.result.events = <<>>

\* C22 as stated: for single-select and multi-select alike, whenever a
\* requested option matches no option of the select, selectOptions returns the
\* continue-polling sentinel and changes nothing.
C22_AsStated ==
  (SelectCalled /\ SomeUnmatched)
    => (call.result.kind = "continue" /\ NothingChanged)

\* C22: a multi-select keeps polling exactly when some requested option
\* matches no option of the select; a single-select keeps polling exactly when
\* something is requested and no requested option matches any option; and a
\* call that keeps polling changes no selected flag, does not clear
\* select.value and dispatches no event.
C22_UnmatchedKeepsPolling ==
  SelectCalled =>
    /\ TheSelect.multiple => ((call.result.kind = "continue") = SomeUnmatched)
    /\ ~TheSelect.multiple =>
         ((call.result.kind = "continue") = (Requested # <<>> /\ AllUnmatched))
    /\ call.result.kind = "continue" => NothingChanged

\* A multi-select with a selected option was asked for one option it has and
\* one it has not, and keeps polling.
C22_Witness ==
  /\ SelectCalled
  /\ TheSelect.multiple
  /\ \E i \in Positions : TheSelect.options[i].selected
  /\ Len(Requested) = 2
  /\ ~MatchesNoOption(Requested[1])
  /\ MatchesNoOption(Requested[2])
  /\ call.result.kind = "continue"

\* The positions of the options selected after the call, and those of the
\* options that some requested descriptor describes.
SelectedAfter == {i \in Positions : call.result.options[i].selected}
Described == {i \in Positions : \E k \in 1..Len(Requested) : DescribedBy(Requested[k], i)}
\* The values of the options at the positions of set, in DOM order.
RECURSIVE ValuesInOrder(_, _)
ValuesInOrder(set, from) ==
  IF from > Len(TheSelect.options) THEN <<>>
  ELSE (IF from \in set THEN <<TheSelect.options[from].value>> ELSE <<>>)
         \o ValuesInOrder(set, from + 1)

\* C30 as stated: when selectOptions succeeds it has dispatched exactly one
\* bubbling input event and then exactly one bubbling change event and returns
\* the values of the selected options in DOM order; in a single-select exactly
\* one option is selected, the first in DOM order that matches any requested
\* descriptor; in a multi-select every option that matches any requested
\* descriptor is selected.
C30_AsStated ==
  (SelectCalled /\ call.result.kind = "return") =>
    /\ call.result.events = <<[type |-> "input", bubbles |-> TRUE],
                              [type |-> "change", bubbles |-> TRUE]>>
    /\ call.result.value = ValuesInOrder(SelectedAfter, 1)
    /\ ~TheSelect.multiple =>
         /\ Cardinality(SelectedAfter) = 1
         /\ \A i \in SelectedAfter : i \in Described /\ \A j \in Described : i <= j
    /\ TheSelect.multiple => SelectedAfter = Described

(* ====================================================================== *)
(*                          Properties of fill                            *)
(* ====================================================================== *)

\* A fill call on a node that retargets to an element has returned.
FillCalled == call.fn = "fill" /\ call.done /\ call.node.followLabel # {}
Target == CHOOSE element \in call.node.followLabel : TRUE
TextLike == {"", "email", "number", "password", "search", "tel", "text", "url"}
DateLike == {"date", "time", "datetime", "datetime-local", "month", "week"}
\* The positions of the value that are left when it is trimmed.
Inner(value) ==
  {i \in 1..Len(value) :
     /\ \E j \in 1..i : ~IsWhiteSpace(value[j])
     /\ \E j \in i..Len(value) : ~IsWhiteSpace(value[j])}
\* The trimmed value is numeric: digits only (none at all is the number 0).
TrimmedIsNumeric(value) == \A i \in Inner(value) : value[i] \in {"1", "2"}
\* The trimmed value, for a value whose trimmed part is tr.
IsTrimOf(tr, value) ==
  /\ Len(tr) = Cardinality(Inner(value))
  /\ \A i \in Inner(value) :
       tr[i - Cardinality({j \in 1..i : j \notin Inner(value)})] = value[i]
FillThrew(message) == call.result.kind = "throw" /\ call.result.value = message
FillReturned(value) == call.result.kind = "return" /\ call.result.value = value
NoEvents == call.result.events = <<>>
NeedsInputWithSelection ==
  FillReturned("needsinput") /\ call.result.selected /\ NoEvents

\* C23: fill classifies by the retargeted element. An input whose type is
\* neither text-like nor date-like throws 'Input of type "<type>" cannot be
\* filled'; an input of type number throws when its trimmed value is not
\* numeric and otherwise returns 'needsinput'; a date-like input returns
\* 'done' only with the trimmed value assigned and read back unchanged and
\* with input then change dispatched, and throws 'Malformed value' otherwise;
\* text-like inputs, textareas and contenteditable elements return
\* 'needsinput' with the text selected and no event dispatched; any other
\* element throws.
C23_FillClassifies ==
  FillCalled =>
    CASE Target.nodeName = "INPUT" /\ Target.type \notin TextLike \cup DateLike ->
           FillThrew("Input of type \"" \o Target.type \o "\" cannot be filled")
      [] Target.nodeName = "INPUT" /\ Target.type = "number" ->
           IF TrimmedIsNumeric(call.value) THEN NeedsInputWithSelection
           ELSE call.result.kind = "throw" /\ NoEvents
      [] Target.nodeName = "INPUT" /\ Target.type \in DateLike ->
           \/ /\ FillReturned("done")
              /\ IsTrimOf(call.result.elementValue, call.value)
              /\ call.result.events = <<[type |-> "input", bubbles |-> TRUE],
                                        [type |-> "change", bubbles |-> TRUE]>>
           \/ /\ FillThrew("Malformed value")
              /\ ~IsTrimOf(call.result.elementValue, call.value)
              /\ NoEvents
      [] Target.nodeName = "INPUT" -> NeedsInputWithSelection
      [] Target.nodeName = "TEXTAREA" -> NeedsInputWithSelection
      [] Target.isContentEditable -> NeedsInputWithSelection
      [] OTHER -> call.result.kind = "throw" /\ NoEvents

\* A date input was filled, through its label, with a valid value that had
\* white space around it.
C23_Witness ==
  /\ FillCalled
  /\ call.node.noFollowLabel # call.node.followLabel
  /\ Target.type = "date"
  /\ call.value = <<" ", "1", "1", " ">>
  /\ call.result.kind = "return" /\ call.result.value = "done"
  /\ call.result.elementValue = <<"1", "1">>
  /\ Len(call.result.events) = 2

(* ====================================================================== *)
(*                    Properties of checkHitTargetAt                      *)
(* ====================================================================== *)

\* checkHitTargetAt has returned for a connected node, and some element is
\* at the point.
HitCalled ==
  /\ call.fn = "checkHitTargetAt" /\ call.done
  /\ call.node.element # {} /\ call.node.isConnected
\* The target: the nearest button the node's element is, or is in, within
\* its tree; the element itself if there is none.
HitButton == IF (CHOOSE e \in call.node.element : TRUE) \in {"button", "span"}
               THEN "button" ELSE CHOOSE e \in call.node.element : TRUE
\* The deepest element at the point: the one the shadow root gives under a
\* host that is on top in the document, if it gives one.
Deepest ==
  IF call.elements[Document] = {"host"} /\ call.elements["host"] # {}
    THEN call.elements["host"]
    ELSE call.elements[Document]
\* The elements from e up through parent elements and shadow hosts.
ChainOf(e) ==
  CASE e = "span" -> {"span", "button", "host", "body"}
    [] e = "button" -> {"button", "host", "body"}
    [] e = "host" -> {"host", "body"}
    [] e = "dialog" -> {"dialog", "body"}
    [] OTHER -> {"body"}

\* C24 as stated: for a connected node checkHitTargetAt returns 'done'
\* exactly when the deepest element at the point is the target itself, and an
\* object with a hitTargetDescription whenever it is any other element.
C24_AsStated ==
  (HitCalled /\ Deepest # {}) =>
    /\ (call.result = Return("done")) = (Deepest = {HitButton})
    /\ Deepest # {HitButton} => call.result.kind = "description"

\* C24: for a connected node checkHitTargetAt returns 'done' exactly when
\* the deepest element at the point is the target or an element inside it (the
\* target is reached from it through parent elements and shadow hosts), and
\* an object with a hitTargetDescription whenever it is any other element.
C24_HitInsideTargetIsDone ==
  (HitCalled /\ Deepest # {}) =>
    /\ (call.result = Return("done"))
         = (\E e \in Deepest : HitButton \in ChainOf(e))
    /\ (\A e \in Deepest : HitButton \notin ChainOf(e))
         => call.result.kind = "description"

\* The host was asked for and the span inside the button of its shadow root
\* is what the point hits.
C24_Witness ==
  /\ HitCalled
  /\ call.node.element = {"host"}
  /\ call.elements[Document] = {"host"}
  /\ call.elements["host"] = {"span"}
  /\ call.result = Return("done")

\* C39 as stated: for every connected node and every point, a point at
\* which no element is found included, checkHitTargetAt returns 'done' or
\* an object with a string hitTargetDescription, and does not throw.
C39_AsStated ==
  HitCalled =>
    \/ call.result = Return("done")
    \/ /\ call.result.kind = "description"
       /\ call.result.value \in STRING

(* ====================================================================== *)
(*                      Properties of parseSelector                       *)
(* ====================================================================== *)

ParseCalled == call.fn = "parseSelector" /\ call.done
\* The names in the registry: the built-in ones and the custom ones.
Registry ==
  BuiltinEngines \cup {call.customEngines[i] : i \in 1..Len(call.customEngines)}
\* The engine each written part names: css when it names none.
NamedEngine(i) ==
  IF call.selector[i].engine = {} THEN "css"
  ELSE CHOOSE name \in call.selector[i].engine : TRUE
Unregistered == {NamedEngine(i) : i \in 1..Len(call.selector)} \ Registry
WellFormed == Cardinality({i \in 1..Len(call.selector) : call.selector[i].capture}) <= 1
\* What the browsers put in front of a message.
MessagePrefixes == {"", "Error: "}

\* C25: parseSelector(s) returns a ParsedSelector only if every part's
\* engine name is a key of the registry (a built-in name or the name of a
\* custom engine); if a part names an unregistered engine it returns nothing
\* and throws a stackless error whose message holds that engine name and s.
C25_UnknownEngineRejected ==
  ParseCalled =>
    /\ call.result.kind = "return" =>
         /\ Unregistered = {}
         /\ \A i \in 1..Len(call.result.value.parts) :
              call.result.value.parts[i].name \in Registry
    /\ (WellFormed /\ Unregistered # {}) =>
         /\ call.result.kind = "throw"
         /\ call.result.value.stack \subseteq {""}
         /\ \E name \in Unregistered, prefix \in MessagePrefixes :
              call.result.value.message =
                prefix \o "Unknown engine \"" \o name
                  \o "\" while parsing selector " \o SelectorSource(call.selector)

\* A selector whose second part names a custom engine that was not given and
\* whose third names an engine nobody has was rejected for the second.
C25_Witness ==
  /\ ParseCalled
  /\ Len(call.selector) = 3
  /\ call.customEngines = <<>>
  /\ NamedEngine(1) = "css" /\ NamedEngine(2) = "tag" /\ NamedEngine(3) = "bogus"
  /\ WellFormed
  /\ call.result.kind = "throw"
  /\ call.result.value.message =
       "Unknown engine \"tag\" while parsing selector a >> tag=a >> bogus=a"

(* ====================================================================== *)
(*                     Properties of the ticks of a poll                  *)
(* ====================================================================== *)

\* A step that ends a tick: the predicate has returned or thrown.
TickEnds == pc = "predicate" /\ pc' = "idle"
\* The tick ended otherwise than by a return: nothing fulfilled, nothing
\* scheduled.
EndsByThrow ==
  TickEnds /\ resultState' # "fulfilled" /\ scheduleCalls' = scheduleCalls
\* The entry logged for the error the poll was rejected with.
ThrowEntry == [kind |-> "message", value |-> "  " \o resultValue]
InSeq(entry, entries) == \E i \in 1..Len(entries) : entries[i] = entry
\* The entry is in the buffer for the next takeNextLogs call, or a
\* takeNextLogs call was resolved with it.
ThrowEntryDelivered ==
  \/ InSeq(ThrowEntry, unsentLog)
  \/ \E i \in 1..Len(takePromises) :
       takePromises[i].state = "resolved" /\ InSeq(ThrowEntry, takePromises[i].logs)
C26_Step ==
  /\ EndsByThrow =>
       /\ resultState' = "rejected"
       /\ resultValue' \in ErrorMessages
       /\ emitted' = Append(emitted, ThrowEntry')
       /\ takeNextLogsCallback # 0 =>
            /\ takePromises'[takeNextLogsCallback].state = "resolved"
            /\ InSeq(ThrowEntry', takePromises'[takeNextLogsCallback].logs)
  /\ resultState = "rejected" =>
       /\ predicateCalls' = predicateCalls
       /\ scheduleCalls' = scheduleCalls
       /\ pc' = "idle" /\ ~scheduled'
       /\ emitted' = emitted
       /\ ThrowEntryDelivered
       /\ (Len(takePromises') > Len(takePromises) /\ InSeq(ThrowEntry, unsentLog)) =>
            /\ takePromises'[Len(takePromises')].state = "resolved"
            /\ InSeq(ThrowEntry, takePromises'[Len(takePromises')].logs)

\* C26: when the predicate throws e during a tick, the poll appends exactly
\* one log entry, whose message is two spaces and e.message, and rejects the
\* run() promise with e; the predicate and scheduleNext are never called
\* again; the entry goes to the takeNextLogs call that is pending, or else to
\* the next one that is made.
C26_ThrowLogsRejectsAndStops == [][C26_Step]_vars

\* The predicate threw while a takeNextLogs call made on an empty buffer was
\* pending, and that call got the entry.
C26_Witness ==
  /\ resultState = "rejected"
  /\ \E i \in 1..Len(takePromises) :
       /\ ~takePromises[i].finished /\ takePromises[i].buffered = <<>>
       /\ takePromises[i].state = "resolved"
       /\ takePromises[i].logs = <<ThrowEntry>>

\* The scheduleNext calls that no tick has taken up yet.
PendingTicks == scheduleCalls - (predicateCalls - 1)
C27_Step ==
  (~aborted /\ ~aborted') =>
    /\ (pc = "idle" /\ pc' = "predicate") =>
         /\ predicateCalls' = predicateCalls + 1
         /\ resultState = "pending"
         /\ scheduleCalls' = scheduleCalls
    /\ ~(pc = "idle" /\ pc' = "predicate") => predicateCalls' = predicateCalls
    /\ TickEnds =>
         \/ /\ scheduleCalls' = scheduleCalls + 1
            /\ scheduled'
            /\ resultState' = "pending"
         \/ /\ scheduleCalls' = scheduleCalls
            /\ ~scheduled'
            /\ resultState' = "fulfilled"
            /\ resultValue' # "Symbol(continuePolling)#" \o ToString(predicateCalls)
         \/ /\ scheduleCalls' = scheduleCalls
            /\ ~scheduled'
            /\ resultState' = "rejected"
    /\ ~TickEnds => scheduleCalls' = scheduleCalls
    /\ resultState # "pending" =>
         /\ resultState' = resultState /\ resultValue' = resultValue
         /\ pc' = "idle" /\ ~scheduled'
    /\ (resultState = "pending" /\ resultState' # "pending") => TickEnds
    /\ started' => PendingTicks' \in {0, 1}
    /\ scheduled' = (pc' = "idle" /\ started' /\ PendingTicks' = 1)

\* C27: in a poll that is not cancelled, each tick invokes the predicate
\* exactly once, with a sentinel of its own; scheduleNext is called exactly
\* once in a tick if the predicate returned that tick's sentinel and not at
\* all otherwise; the run() promise is settled at most once, by the first tick
\* whose predicate does not return its sentinel, and fulfilled with what that
\* predicate returned; after it no tick runs; and at most one tick is pending.
C27_OneTickAtATime == [][C27_Step]_vars

\* The second tick's predicate returned the sentinel of the first tick, and
\* the poll was fulfilled with it.
C27_Witness ==
  /\ ~aborted
  /\ predicateCalls = 2
  /\ scheduleCalls = 1
  /\ resultState = "fulfilled"
  /\ resultValue = "Symbol(continuePolling)#1"

(* ====================================================================== *)
(*                     Properties of the poll methods                     *)
(* ====================================================================== *)

\* The timers a poll has set so far.
Timers == call.timers
\* The wait the log scale prescribes before tick n + 1.
LogScaleWait(n) ==
  CASE n = 1 -> 100
    [] n = 2 -> 250
    [] n = 3 -> 500
    [] OTHER -> 1000

\* C33: the pollLogScale scheduler waits 100 ms before the second tick,
\* 250 ms before the third, 500 ms before the fourth and 1000 ms before every
\* later tick: the n-th scheduleNext call sets a timeout of that length.
C33_LogScaleWaits ==
  call.fn = "pollLogScale" =>
    /\ Len(Timers) = scheduleCalls
    /\ \A n \in 1..Len(Timers) :
         Timers[n] = [kind |-> "setTimeout", delay |-> LogScaleWait(n)]

\* Five timers were set: 100, 250, 500, 1000 and 1000 ms.
C33_Witness ==
  /\ call.fn = "pollLogScale"
  /\ Len(Timers) >= 5
  /\ Timers[3].delay = 500 /\ Timers[4].delay = 1000 /\ Timers[5].delay = 1000

(* C34 as stated: on an instance constructed with replaceRafWithTimeout,   *)
(* every poll started through pollRaf, directly or through                 *)
(* waitForElementStatesAndPerformAction, sets a 16 ms timer for its next   *)
(* tick and never calls requestAnimationFrame.                             *)
C34_AsStated ==
  (/\ call.fn \in {"pollRaf", "waitForElementStatesAndPerformAction"}
   /\ call.replaceRafWithTimeout) =>
    \A n \in 1..Len(Timers) : Timers[n] = [kind |-> "setTimeout", delay |-> 16]

(* ====================================================================== *)
(*                  Properties of the evaluator's hooks                   *)
(* ====================================================================== *)

\* A query call has been made and its outcome is there.
Queried == query.status = "done"
\* The call was rejected by the queryable-root check.
Rejected == query.outcome.kind = "error" /\ query.outcome.error = "Node is not queryable."
\* The four ways out of a call that passed the check.
ExitPaths ==
  {"", "strict mode violation",
   "Can't query n-th element in a request with the capture.", "SyntaxError"}

\* C35: every querySelector and querySelectorAll call that passes the
\* queryable-root check calls the evaluator's begin exactly once and end
\* exactly once, end after begin, on every exit path (return, strict mode
\* violation, capture/nth error, error thrown by an engine); a call rejected
\* for a root that is not queryable calls neither; after any sequence of
\* calls the evaluator has seen as many begin calls as end calls.
C35_HooksBracketEveryCall ==
  /\ call.begins = call.ends
  /\ Queried =>
       /\ query.root \in {0, 1} =>
            /\ query.outcome.hooks = <<"begin", "end">>
            /\ query.outcome.error \in ExitPaths
       /\ query.root = 6 => Rejected /\ query.outcome.hooks = <<>>

\* An engine threw in the second of two calls, and end was called for both.
C35_Witness ==
  /\ Queried
  /\ query.outcome.error = "SyntaxError"
  /\ query.outcome.hooks = <<"begin", "end">>
  /\ call.begins = 2 /\ call.ends = 2

(* ====================================================================== *)
(*                      Properties of dispatchEvent                       *)
(* ====================================================================== *)

\* The type names of the mouse events, and those of the other families.
MouseEventNames ==
  {"click", "dblclick", "mousedown", "mouseup", "mousemove", "mouseover",
   "mouseout", "mouseenter", "mouseleave", "auxclick"}
OtherFamilyNames ==
  {"keydown", "keyup", "keypress", "touchstart", "touchmove", "touchend",
   "touchcancel", "pointerover", "pointerout", "pointerenter", "pointerleave",
   "pointerdown", "pointerup", "pointermove", "pointercancel", "focus", "blur",
   "drag", "dragstart", "dragend", "dragover", "dragenter", "dragleave", "drop"}
Dispatched == call.fn = "dispatchEvent" /\ call.done

(* C36 as stated: every mouse event type name (click, dblclick, mousedown, *)
(* mouseup, mousemove, mouseover, mouseout, mouseenter, mouseleave,        *)
(* auxclick) yields a MouseEvent, only type names of no family yield a     *)
(* generic Event, and bubbles, cancelable and composed are true unless the *)
(* caller's eventInit overrides them.                                      *)
C36_AsStated ==
  Dispatched =>
    /\ call.type \in MouseEventNames => call.result.constructor = "MouseEvent"
    /\ call.result.constructor = "Event" =>
         call.type \notin MouseEventNames \cup OtherFamilyNames
    /\ \A key \in {"bubbles", "cancelable", "composed"} :
         call.result.init[key] = (call.eventInit[key] # {FALSE})

(* ====================================================================== *)
(*                   Properties of Locator._withElement                   *)
(* ====================================================================== *)

\* _withElement has ended.
WithElementSettled == call.fn = "_withElement" /\ call.at = "settled"
\* The handle was resolved.
HandleResolved == call.fn = "_withElement" /\ call.resolved = {"handle"}

\* C40 as stated: if resolving the handle fails the task is never invoked;
\* if it succeeds the task is invoked exactly once, handle.dispose() is
\* called exactly once and after the task has settled, and what the caller
\* observes is the task's outcome; with a positive timeout the timeout
\* handed to the task is positive and at most the time left until the
\* deadline computed before the resolution.
C40_AsStated ==
  /\ (WithElementSettled /\ ~HandleResolved) => call.events = <<>>
  /\ (WithElementSettled /\ HandleResolved) =>
        /\ call.events = <<"task", "task settled", "dispose">>
        /\ call.result = call.taskOutcome
  /\ (HandleResolved /\ call.timeout > 0) =>
        \A passed \in call.taskTimeout :
          passed > 0 /\ passed <= call.deadline - call.taskAt

====
